---------------------------- MODULE Spec2Model ----------------------------
(***************************************************************************)
(* GDL-90 codec of etdey/gdl90: the stream decoder (gdl90/decoder.py), the *)
(* message parsers (gdl90/messages.py) and the frame encoder               *)
(* (gdl90/encoder.py).  Byte sequences are TLA+ sequences of 0..255        *)
(* (1-based; Python index i is TLA+ index i+1).                            *)
(***************************************************************************)
EXTENDS Integers, Sequences, FiniteSets, TLC

VARIABLES
    \* ---- Decoder object (decoder.py, Decoder.__init__) ----
    inputBuffer,          \* self.inputBuffer
    parserSynchronized,   \* self.parserSynchronized
    stats,                \* self.stats: [resync, msgs: id -> <<good, bad>>]
    format,               \* self.format
    altitude,             \* self.altitude
    altitudeAge,          \* self.altitudeAge
    gpsTimeReceived,      \* self.gpsTimeReceived
    dayStart,             \* self.dayStart: None or Some(day number)
    currtime,             \* self.currtime: [date, hour, minute, second]
    \* ---- observation of the last addBytes call ----
    calls,                \* number of addBytes calls made so far
    lastData,             \* the data argument of the last call
    log,                  \* one record per frame handed to _decodeMessage
    raised,               \* exception that left addBytes, or "none"
    iters,                \* loop iterations of the last call
    preBuffer,            \* inputBuffer when the last call started
    \* ---- observation of the whole stream ----
    mon,                  \* well-formed-frame monitor of the bytes fed
    lastBody,             \* last body handed to _decodeMessage, or "none"
    \* ---- direct calls of single functions ----
    uIn,                  \* argument of the function applied
    uOut                  \* its result

vars == << inputBuffer, parserSynchronized, stats, format, altitude,
           altitudeAge, gpsTimeReceived, dayStart, currtime, calls,
           lastData, log, raised, iters, preBuffer, mon, lastBody,
           uIn, uOut >>

decoderVars == << inputBuffer, parserSynchronized, stats, format, altitude,
                  altitudeAge, gpsTimeReceived, dayStart, currtime, calls,
                  lastData, log, raised, iters, preBuffer, mon, lastBody >>

unitVars == << uIn, uOut >>

-----------------------------------------------------------------------------
(* Bounds of the model                                                      *)

\* number of addBytes calls explored
MaxCalls == 3

\* length of the byte sequences given to the functions called directly
MaxLen == 5

\* length of the DLAC-packed byte sequences given to dlac2string
MaxDlacLen == 4

-----------------------------------------------------------------------------
(* Program constants                                                        *)

FLAG == 126        \* 0x7e, frame marker
ESC == 125         \* 0x7d, escape character (escapeValue / escapeChar)
ESCXOR == 32       \* 0x20, value xor-ed into an escaped byte
MINRAW == 5        \* shortest unescaped frame _decodeMessage accepts
ALTITUDEMAXAGE == 5 \* self.altitudeMaxAge, never assigned after __init__

-----------------------------------------------------------------------------
(* Python integer and sequence operations                                   *)

RECURSIVE BitXor(_, _)
BitXor(a, b) ==
    IF a = 0 THEN b
    ELSE IF b = 0 THEN a
    ELSE (((a % 2) + (b % 2)) % 2) + (2 * BitXor(a \div 2, b \div 2))

RECURSIVE BitAnd(_, _)
BitAnd(a, b) ==
    IF a = 0 \/ b = 0 THEN 0
    ELSE ((a % 2) * (b % 2)) + (2 * BitAnd(a \div 2, b \div 2))

RECURSIVE BitOr(_, _)
BitOr(a, b) ==
    IF a = 0 THEN b
    ELSE IF b = 0 THEN a
    ELSE (IF a % 2 = 1 \/ b % 2 = 1 THEN 1 ELSE 0)
         + (2 * BitOr(a \div 2, b \div 2))

RECURSIVE Pow2(_)
Pow2(n) == IF n = 0 THEN 1 ELSE 2 * Pow2(n - 1)

ShiftL(a, n) == a * Pow2(n)
ShiftR(a, n) == a \div Pow2(n)

\* an argument or attribute that may be None: None, or Some(v) holding v
None == << >>
Some(v) == << v >>
Val(o) == o[1]

\* s[i:] of Python (i is the 0-based start)
Drop(s, i) == SubSeq(s, i + 1, Len(s))
\* s[:i] of Python
Take(s, i) == SubSeq(s, 1, i)

\* s.index(b, start): 0-based position of the first b at or after start,
\* or -1 where Python raises ValueError
RECURSIVE IndexFrom(_, _, _)
IndexFrom(s, b, start) ==
    IF start >= Len(s) THEN -1
    ELSE IF s[start + 1] = b THEN start
    ELSE IndexFrom(s, b, start + 1)

Contains(s, b) == \E k \in 1..Len(s) : s[k] = b

Max(a, b) == IF a >= b THEN a ELSE b

-----------------------------------------------------------------------------
(* gdl90/fcs.py: CRC-16 of the GDL-90 interface specification               *)

RECURSIVE CrcShift(_, _)
CrcShift(crc, n) ==
    IF n = 0 THEN crc
    ELSE CrcShift(
           BitXor((crc * 2) % 65536, IF crc >= 32768 THEN 4129 ELSE 0),
           n - 1)

CRC16Table == [ i \in 0..255 |-> CrcShift(i * 256, 8) ]

\* x ^ y on bytes, tabulated once
XorByte == [ x \in 0..255 |-> [ y \in 0..255 |-> BitXor(x, y) ] ]

Xor16(a, b) ==
    (XorByte[a \div 256][b \div 256] * 256) + XorByte[a % 256][b % 256]

RECURSIVE CrcLoop(_, _, _)
CrcLoop(msg, k, crc) ==
    IF k > Len(msg) \/ crc \notin 0..65535 THEN crc
    ELSE CrcLoop(msg, k + 1,
           Xor16(CRC16Table[crc \div 256], ((crc * 256) % 65536) + msg[k]))

\* the two check bytes, low byte first
crcCompute(msg) ==
    LET crc == CrcLoop(msg, 1, 0) IN << crc % 256, crc \div 256 >>

crcCheck(msg, crc) == crcCompute(msg) = crc

-----------------------------------------------------------------------------
(* gdl90/encoder.py: frame codec                                            *)

\* Encoder._addCrc: msg.extend(crcCompute(msg))
AddCrc(msg) == msg \o crcCompute(msg)

\* the for loop of _escape; the second test is never true (msgNew holds at
\* most two bytes per byte read), it evaluates msgNew at every pass
RECURSIVE EscapeLoop(_, _, _)
EscapeLoop(msg, i, msgNew) ==
    IF i >= Len(msg) \/ Len(msgNew) > 2 * i THEN msgNew
    ELSE LET c == msg[i + 1] IN
         IF c \in {ESC, FLAG}
         THEN EscapeLoop(msg, i + 1, msgNew \o << ESC, XorByte[c][ESCXOR] >>)
         ELSE EscapeLoop(msg, i + 1, Append(msgNew, c))

\* Escape that stuffs the frame marker only
RECURSIVE EscapeFlagOnlyLoop(_, _, _)
EscapeFlagOnlyLoop(msg, i, msgNew) ==
    IF i >= Len(msg) \/ Len(msgNew) > 2 * i THEN msgNew
    ELSE LET c == msg[i + 1] IN
         IF c = FLAG
         THEN EscapeFlagOnlyLoop(msg, i + 1,
                                 msgNew \o << ESC, XorByte[c][ESCXOR] >>)
         ELSE EscapeFlagOnlyLoop(msg, i + 1, Append(msgNew, c))

EscapeFlagOnly(msg) == EscapeFlagOnlyLoop(msg, 0, << >>)

\* Encoder._escape
Escape(msg) == EscapeLoop(msg, 0, << >>)

\* Encoder._preparedMessage
PreparedMessage(msg) == << FLAG >> \o Escape(AddCrc(msg)) \o << FLAG >>

\* _preparedMessage that does not escape
PreparedMessageNoEscape(msg) ==
    [ret |-> << FLAG >> \o AddCrc(msg) \o << FLAG >>, msg |-> AddCrc(msg)]

\* A call of Encoder._preparedMessage on the bytearray object msg:
\* ret is the frame returned, msg the content of the object after the call
\* (_addCrc extends the object it is given)
PreparedMessageCall(msg) ==
    [ret |-> << FLAG >> \o Escape(AddCrc(msg)) \o << FLAG >>,
     msg |-> AddCrc(msg)]

-----------------------------------------------------------------------------
(* gdl90/encoder.py: message functions.  Each XxxBody is the bytearray msg  *)
(* the function hands to _preparedMessage.                                  *)

\* int(a / b) for b > 0: truncation toward zero
TruncDiv(a, b) == IF a >= 0 THEN a \div b ELSE -((-a) \div b)

\* struct.pack('>H', v) and struct.pack('<H', v) for v in 0..65535
PackBE16(v) == << v \div 256, v % 256 >>
PackLE16(v) == << v % 256, v \div 256 >>
\* struct.pack('>L', v)
PackBE32(v) == << (v \div 16777216) % 256, (v \div 65536) % 256,
                  (v \div 256) % 256, v % 256 >>

\* _pack24bit that rejects negative numbers only
Pack24bitRaisesNegativeOnly(num) == num < 0

\* the test of Encoder._pack24bit that raises ValueError; num & 0xFFFFFF is
\* num modulo 2^24 for every Python integer
Pack24bitRaises(num) == (num % 16777216) # num \/ num < 0

\* Encoder._pack24bit for num in 0..0xFFFFFF
Pack24bit(num) ==
    << ShiftR(BitAnd(num, 16711680), 16), ShiftR(BitAnd(num, 65280), 8),
       BitAnd(num, 255) >>

\* Encoder._makeLatitude, for a latitude in whole degrees
MakeLatitude(latitude) ==
    LET l1 == IF latitude > 90 THEN 90 ELSE latitude
        l2 == IF l1 < -90 THEN -90 ELSE l1
        v == TruncDiv(l2 * 8388608, 180)
    IN IF v < 0 THEN BitAnd(16777216 + v, 16777215) ELSE v

\* Encoder._makeLongitude, for a longitude in whole degrees
MakeLongitude(longitude) ==
    LET l1 == IF longitude > 180 THEN 180 ELSE longitude
        l2 == IF l1 < -180 THEN -180 ELSE l1
        v == TruncDiv(l2 * 8388608, 180)
    IN IF v < 0 THEN BitAnd(16777216 + v, 16777215) ELSE v

\* A call of Encoder._pack24bit: the exception raised, or the bytes returned
Pack24bitCall(num) ==
    IF Pack24bitRaises(num) THEN [exc |-> "ValueError", ret |-> << >>]
    ELSE [exc |-> "none", ret |-> Pack24bit(num)]

\* msgHeartbeat that packs the timestamp big endian
HeartbeatBodyBigEndian(st1, st2, ts, mc) ==
    LET ts_bit16 == ShiftR(BitAnd(ts, 65536), 16)
        st2b == BitOr(BitAnd(st2, 127), ShiftL(ts_bit16, 7))
    IN << 0, st1, st2b >> \o PackBE16(BitAnd(ts, 65535)) \o PackBE16(mc)

\* Encoder.msgHeartbeat
HeartbeatBody(st1, st2, ts, mc) ==
    LET ts_bit16 == ShiftR(BitAnd(ts, 65536), 16)
        st2b == BitOr(BitAnd(st2, 127), ShiftL(ts_bit16, 7))
    IN << 0, st1, st2b >> \o PackLE16(BitAnd(ts, 65535)) \o PackBE16(mc)

\* Pad8 that pads a short call sign and leaves a long one as it is
Pad8NoTruncation(callSign) ==
    IF Len(callSign) >= 8 THEN callSign
    ELSE callSign \o [k \in 1..(8 - Len(callSign)) |-> 32]

\* (callSign + " "*8)[:8] as ASCII codes
Pad8(callSign) == Take(callSign \o << 32, 32, 32, 32, 32, 32, 32, 32 >>, 8)

\* Encoder._msgType10and20; p is the record of its arguments, hVelocity and
\* vVelocity are None or Some(integer), latitude/longitude/trackHeading
\* whole degrees
MsgType10and20Body(msgid, p) ==
    LET b == BitOr(ShiftL(BitAnd(p.status, 15), 4), BitAnd(p.addrType, 15))
        a0 == TruncDiv(p.altitude + 1000, 25)
        a1 == IF a0 < 0 THEN 0 ELSE a0
        alt == IF a1 > 4094 THEN 4094 ELSE a1
        hVelocity == IF p.hVelocity = None THEN 4095
                     ELSE IF Val(p.hVelocity) < 0 THEN 0
                     ELSE IF Val(p.hVelocity) > 4094 THEN 4094
                     ELSE Val(p.hVelocity)
        vVelocity == IF p.vVelocity = None THEN 2048
                     ELSE IF Val(p.vVelocity) > 32576 THEN 510
                     ELSE IF Val(p.vVelocity) < -32576 THEN 3586
                     ELSE LET v == TruncDiv(Val(p.vVelocity), 64) IN
                          IF v < 0 THEN BitAnd(16777216 + v, 16777215)
                          ELSE v
        trackHeading == TruncDiv(p.trackHeading * 256, 360)
    IN  << msgid, b >>
        \o Pack24bit(p.address)
        \o Pack24bit(MakeLatitude(p.latitude))
        \o Pack24bit(MakeLongitude(p.longitude))
        \o << ShiftR(BitAnd(alt, 4080), 4),
              BitOr(ShiftL(BitAnd(alt, 15), 4), BitAnd(p.misc, 15)),
              BitOr(ShiftL(BitAnd(p.navIntegrityCat, 15), 4),
                    BitAnd(p.navAccuracyCat, 15)),
              ShiftR(BitAnd(hVelocity, 4080), 4),
              BitOr(ShiftL(BitAnd(hVelocity, 15), 4),
                    ShiftR(BitAnd(vVelocity, 3840), 8)),
              BitAnd(vVelocity, 255),
              BitAnd(trackHeading, 255),
              BitAnd(p.emitterCat, 255) >>
        \o Pad8(p.callSign)
        \o << ShiftL(BitAnd(p.code, 15), 4) >>

\* Encoder.msgOwnshipReport / msgTrafficReport
OwnshipReportBody(p) == MsgType10and20Body(10, p)
TrafficReportBody(p) == MsgType10and20Body(20, p)

\* A call of Encoder._msgType10and20: the exception raised by one of its
\* three _pack24bit calls, or the msg built and the frame returned
MsgType10and20Call(msgid, p) ==
    IF \/ Pack24bitCall(p.address).exc # "none"
       \/ Pack24bitCall(MakeLatitude(p.latitude)).exc # "none"
       \/ Pack24bitCall(MakeLongitude(p.longitude)).exc # "none"
    THEN [exc |-> "ValueError", body |-> << >>, ret |-> << >>]
    ELSE [exc |-> "none", body |-> MsgType10and20Body(msgid, p),
          ret |-> PreparedMessage(MsgType10and20Body(msgid, p))]

\* the altitude in 5 ft steps that msgOwnshipGeometricAltitude hands to
\* struct.pack('>H'); x & 0xffff is x modulo 2^16 for every Python integer
GeometricAltitudeSteps(alt) ==
    LET a0 == TruncDiv(alt, 5)
    IN IF a0 < 0 THEN (65536 + a0) % 65536 ELSE a0

\* Encoder.msgOwnshipGeometricAltitude, for altitudes that struct.pack('>H')
\* accepts; merit is None or Some(integer)
OwnshipGeometricAltitudeBody(alt, merit, warning) ==
    LET a == GeometricAltitudeSteps(alt)
        m == IF merit = None THEN 32767
             ELSE IF Val(merit) > 32766 THEN 32766 ELSE Val(merit)
        b0 == ShiftR(BitAnd(m, 32512), 8)
        b == IF warning THEN BitOr(b0, 128) ELSE b0
    IN << 11 >> \o PackBE16(a) \o << b, BitAnd(m, 255) >>

\* A call of Encoder.msgOwnshipGeometricAltitude: struct.pack('>H', v) raises
\* struct.error unless 0 <= v <= 65535
OwnshipGeometricAltitudeCall(alt, merit, warning) ==
    IF GeometricAltitudeSteps(alt) \notin 0..65535
    THEN [exc |-> "struct.error", body |-> << >>, ret |-> << >>]
    ELSE [exc |-> "none",
          body |-> OwnshipGeometricAltitudeBody(alt, merit, warning),
          ret |-> PreparedMessage(
                    OwnshipGeometricAltitudeBody(alt, merit, warning))]

\* Encoder.msgGpsTime with hour and minute given
GpsTimeBody(count, quality, hour, minute) ==
    << 101, 42, 0, BitAnd(48 + quality, 255),
       count % 256, (count \div 256) % 256, (count \div 65536) % 256,
       BitAnd(hour, 255), BitAnd(minute, 255), 0, 0, 4 >>

\* Encoder.msgStratuxHeartbeat
StratuxHeartbeatBody(st1, ver) ==
    << 204, BitAnd(st1, 3) + ShiftL(BitAnd(ver, 63), 2) >>

RECURSIVE TowerBytes(_)
TowerBytes(towers) ==
    IF towers = << >> THEN << >>
    ELSE Pack24bit(MakeLatitude(Head(towers)[1]))
         \o Pack24bit(MakeLongitude(Head(towers)[2]))
         \o TowerBytes(Tail(towers))

\* Encoder.msgSXHeartbeat; p is the record of its arguments
SXHeartbeatBody(p) ==
    << 29, 83, 88, 1, 1 >>
    \o PackBE32(p.fv) \o PackBE32(p.hv)
    \o PackBE16(p.st1) \o PackBE16(p.st2)
    \o << p.satLock, p.satConn >>
    \o PackBE16(p.num978) \o PackBE16(p.num1090)
    \o PackBE16(p.rate978) \o PackBE16(p.rate1090)
    \o PackBE16(p.cpuTemp) \o << Len(p.towers) >>
    \o TowerBytes(p.towers)

\* Encoder.msgForeFlightMessage101; sn is None or Some(ASCII codes)
ForeFlightMessage101Body(sn, nameShort, nameLong, capmask) ==
    << 101, 0, 1 >>
    \o (IF sn = None THEN << 255, 255, 255, 255, 255, 255, 255, 255 >>
        ELSE Pad8(Val(sn)))
    \o Pad8(nameShort)
    \o Take(nameLong \o << 32, 32, 32, 32, 32, 32, 32, 32,
                          32, 32, 32, 32, 32, 32, 32, 32 >>, 16)
    \o PackBE32(capmask)

-----------------------------------------------------------------------------
(* gdl90/decoder.py: Decoder._unescape                                      *)

\* One pass of the while loop; [ret |-> returned sequence, msg |-> the
\* argument as the function leaves it]
RECURSIVE UnescapeLoop(_, _, _)
UnescapeLoop(msg, msgNew, foundEscapeChar) ==
    LET i == IndexFrom(msg, ESC, 0) IN
    IF i = -1
    THEN \* ValueError: no more escape characters
         IF foundEscapeChar
         THEN [ret |-> msgNew \o msg, msg |-> msg]
         ELSE [ret |-> msg, msg |-> msg]
    ELSE IF i + 1 >= Len(msg)
    THEN \* IndexError at msg[i+1]; msgNew was already extended by msg[0:i]
         \* and foundEscapeChar already set
         [ret |-> (msgNew \o Take(msg, i)) \o msg, msg |-> msg]
    ELSE UnescapeLoop(Drop(msg, i + 2),
                      (msgNew \o Take(msg, i))
                          \o << XorByte[msg[i + 2]][ESCXOR] >>,
                      TRUE)

Unescape(msg) == UnescapeLoop(msg, << >>, FALSE).ret

-----------------------------------------------------------------------------
(* gdl90/messages.py                                                        *)

\* _unsigned16(data, littleEndian)
Unsigned16(data, littleEndian) ==
    IF littleEndian THEN (data[2] * 256) + data[1]
    ELSE (data[1] * 256) + data[2]

\* _signed16(data)
Signed16(data) ==
    LET val == Unsigned16(data, FALSE) IN
    IF val > 32767 THEN val - 65536 ELSE val

\* _unsigned24(data) and _signed24(data), big endian
Unsigned24(data) == ShiftL(data[1], 16) + ShiftL(data[2], 8) + data[3]
Signed24(data) ==
    LET val == Unsigned24(data) IN
    IF val > 8388607 THEN val - 16777216 ELSE val

\* _thunkByte(byte, mask, shift) for byte in 0..255
ThunkByte(byte, mask, shift) ==
    LET val == BitAnd(byte, mask) IN
    IF shift < 0 THEN ShiftR(val, -shift)
    ELSE IF shift > 0 THEN ShiftL(val, shift)
    ELSE val

NoMessage == [kind |-> "None", MsgType |-> "None", f |-> << >>]
AssertionError == [kind |-> "raise", MsgType |-> "AssertionError", f |-> << >>]

\* _parseHeartbeat
ParseHeartbeat(msgBytes) ==
    IF Len(msgBytes) # 7 THEN AssertionError
    ELSE LET statusByte2 == msgBytes[3]
             ts == Unsigned16(Drop(msgBytes, 3), TRUE)
             timeStamp == IF BitAnd(statusByte2, 128) # 0
                          THEN ts + 65536 ELSE ts
             uplinkCount == ShiftR(BitAnd(msgBytes[6], 248), 3)
             basicLongCount == ShiftL(BitAnd(msgBytes[6], 3), 8) + msgBytes[7]
         IN [kind |-> "msg", MsgType |-> "Heartbeat",
             f |-> << msgBytes[2], statusByte2, timeStamp,
                      uplinkCount, basicLongCount >>]

\* _parseUplinkData
ParseUplinkData(msgBytes) ==
    IF Len(msgBytes) # 436 THEN AssertionError
    ELSE [kind |-> "msg", MsgType |-> "UplinkData", f |-> << >>]

\* vertical velocity decoding that reads the 12 bits as unsigned
VertVeloUnsigned(msgBytes) ==
    ThunkByte(msgBytes[16], 15, 8) + ThunkByte(msgBytes[17], 255, 0)

\* the vertical velocity of _parseMessageType10and20 in 64 fpm steps
VertVelo(msgBytes) ==
    LET vertVelo == ThunkByte(msgBytes[16], 15, 8)
                    + ThunkByte(msgBytes[17], 255, 0)
    IN IF vertVelo = 2048 THEN 0
       ELSE IF (vertVelo >= 511 /\ vertVelo <= 2047)
               \/ (vertVelo >= 2049 /\ vertVelo <= 3585) THEN 0
       ELSE IF vertVelo > 2047 THEN vertVelo - 4096
       ELSE vertVelo

\* _parseMessageType10and20, the fields of the report.  Latitude and
\* Longitude are in units of latLongIncrement (180/2^23 degrees) and
\* TrackHeading in units of trackIncrement (360/256 degrees).  The mask of
\* the status field is the literal 0x0b11110000 = 185663488.
ParseMessageType10and20(msgType, msgBytes) ==
    LET altMetric == ThunkByte(msgBytes[12], 255, 4)
                     + ThunkByte(msgBytes[13], 240, -4)
        horzVelo == ThunkByte(msgBytes[15], 255, 4)
                    + ThunkByte(msgBytes[16], 240, -4)
    IN [Status |-> ThunkByte(msgBytes[2], 185663488, -4),
        Type |-> ThunkByte(msgBytes[2], 15, 0),
        Address |-> ShiftL(msgBytes[3], 16) + ShiftL(msgBytes[4], 8)
                    + msgBytes[5],
        Latitude |-> Signed24(Drop(msgBytes, 5)),
        Longitude |-> Signed24(Drop(msgBytes, 8)),
        Altitude |-> (altMetric * 25) - 1000,
        Misc |-> ThunkByte(msgBytes[13], 15, 0),
        NIC |-> ThunkByte(msgBytes[14], 240, -4),
        NACp |-> ThunkByte(msgBytes[14], 15, 0),
        HVelocity |-> IF horzVelo = 4095 THEN 0 ELSE horzVelo,
        VVelocity |-> VertVelo(msgBytes) * 64,
        TrackHeading |-> msgBytes[18],
        EmitterCat |-> msgBytes[19],
        Code |-> ThunkByte(msgBytes[28], 240, -4)]

\* _parseOwnshipReport
ParseOwnshipReport(msgBytes) ==
    IF Len(msgBytes) # 28 THEN AssertionError
    ELSE [kind |-> "msg", MsgType |-> "OwnshipReport",
          f |-> ParseMessageType10and20("OwnshipReport", msgBytes)]

\* _parseOwnshipGeometricAltitude
ParseOwnshipGeometricAltitude(msgBytes) ==
    IF Len(msgBytes) # 5 THEN AssertionError
    ELSE [kind |-> "msg", MsgType |-> "OwnshipGeometricAltitude",
          f |-> << Signed16(Drop(msgBytes, 1)) * 5,
                   ShiftL(msgBytes[4], 8) + msgBytes[5] >>]

\* _parseTrafficReport
ParseTrafficReport(msgBytes) ==
    IF Len(msgBytes) # 28 THEN AssertionError
    ELSE [kind |-> "msg", MsgType |-> "TrafficReport",
          f |-> ParseMessageType10and20("TrafficReport", msgBytes)]

\* _parseSkyradarGpsTime that accepts hour 24
ParseSkyradarGpsTimeHour24(msgBytes) ==
    LET utcHour == msgBytes[8]
        utcMinute == msgBytes[9]
    IN IF ~(0 <= utcHour /\ utcHour <= 24) \/ ~(0 <= utcMinute /\ utcMinute < 60)
       THEN NoMessage
       ELSE [kind |-> "msg", MsgType |-> "GpsTime",
             f |-> << utcHour, utcMinute,
                      IF msgBytes[4] = 49 THEN "False"
                      ELSE IF msgBytes[4] = 50 THEN "True" ELSE "None" >>]

\* _parseSkyradarGpsTime; f = << Hour, Minute, Waas >>
ParseSkyradarGpsTime(msgBytes) ==
    LET utcHour == msgBytes[8]
        utcMinute == msgBytes[9]
    IN IF ~(0 <= utcHour /\ utcHour < 24) \/ ~(0 <= utcMinute /\ utcMinute < 60)
       THEN NoMessage
       ELSE [kind |-> "msg", MsgType |-> "GpsTime",
             f |-> << utcHour, utcMinute,
                      IF msgBytes[4] = 49 THEN "False"
                      ELSE IF msgBytes[4] = 50 THEN "True" ELSE "None" >>]

\* _parseCustomMessage101 (_parseSkyEchoOwnship returns None)
ParseCustomMessage101(msgBytes) ==
    IF Len(msgBytes) \in {12, 21} THEN ParseSkyradarGpsTime(msgBytes)
    ELSE NoMessage

\* MessageIDMapping.keys()
MessageIDs == {0, 7, 10, 11, 20, 101}

\* messageToObject
messageToObject(data) ==
    IF ~(Len(data) > 0) THEN NoMessage
    ELSE LET msgId == data[1] IN
         IF msgId \notin MessageIDs THEN NoMessage
         ELSE CASE msgId = 0 -> ParseHeartbeat(data)
                [] msgId = 7 -> ParseUplinkData(data)
                [] msgId = 10 -> ParseOwnshipReport(data)
                [] msgId = 11 -> ParseOwnshipGeometricAltitude(data)
                [] msgId = 20 -> ParseTrafficReport(data)
                [] msgId = 101 -> ParseCustomMessage101(data)

-----------------------------------------------------------------------------
(* gdl90/messagesuat.py: the UAT sub-decoder                                *)

\* size of the UAT data field that _extractIFrames scans
UATDATALEN == 424

\* s[a:b] of Python for 0 <= a
PySlice(s, a, b) ==
    IF a >= Len(s) \/ b <= a THEN << >>
    ELSE SubSeq(s, a + 1, IF b < Len(s) THEN b ELSE Len(s))

\* the while loop of _extractIFrames with the local variables n and
\* iframeList; [exc, ret]
RECURSIVE ExtractIFramesLoop(_, _, _)
ExtractIFramesLoop(dataBytes, n, iframeList) ==
    IF ~(n < UATDATALEN) THEN [exc |-> "none", ret |-> iframeList]
    ELSE IF n >= 452 THEN [exc |-> "none", ret |-> iframeList]
    ELSE IF n >= Len(dataBytes) THEN [exc |-> "IndexError", ret |-> << >>]
    ELSE IF dataBytes[n + 1] = 0 /\ n + 1 >= Len(dataBytes)
    THEN [exc |-> "IndexError", ret |-> << >>]
    ELSE IF dataBytes[n + 1] = 0 /\ dataBytes[n + 2] = 0
    THEN [exc |-> "none", ret |-> iframeList]
    ELSE IF n + 1 >= Len(dataBytes) THEN [exc |-> "IndexError", ret |-> << >>]
    ELSE LET framelen == ShiftL(dataBytes[n + 1], 1)
                           + ThunkByte(dataBytes[n + 2], 127, -7)
             frameType == ThunkByte(dataBytes[n + 2], 15, 0)
             frame == [Type |-> frameType,
                       Data |-> PySlice(dataBytes, n + 2, n + 2 + framelen)]
         IN ExtractIFramesLoop(dataBytes, n + 2 + framelen,
                               Append(iframeList, frame))

\* _extractIFrames(dataBytes); [exc, ret]
ExtractIFrames(dataBytes) == ExtractIFramesLoop(dataBytes, 0, << >>)

CHAR_ETX == "ETX"
CHAR_RS == "RS"
CHAR_NULL == "NUL"

\* DLAC2StrTable[d] for d in 0..63 (TLA+ index d + 1); the control
\* characters are written by name
DLAC2StrTable ==
    << CHAR_ETX, "A", "B", "C", "D", "E", "F", "G", "H", "I", "J", "K", "L",
       "M", "N", "O", "P", "Q", "R", "S", "T", "U", "V", "W", "X", "Y", "Z",
       CHAR_NULL, "....", CHAR_RS, "CRLF", CHAR_NULL, " ", "!", "\"", "#",
       "$", "%", "&", "'", "(", ")", "*", "+", ",", "-", ".", "/", "0", "1",
       "2", "3", "4", "5", "6", "7", "8", "9", ":", ";", "<", "=", ">", "?" >>

\* the while loop of dlac2string with the local variables n, m and
\* msgOutChars; [exc, ret], ret the list that b"".join concatenates
RECURSIVE Dlac2StringLoop(_, _, _, _)
Dlac2StringLoop(msgIn, n, m, msgOutChars) ==
    LET msgLength == Len(msgIn)
        pos == m % 4
        stop == [exc |-> "none", ret |-> msgOutChars]
        d == CASE pos = 0 -> ThunkByte(msgIn[n + 1], 252, -2)
               [] pos = 1 -> ThunkByte(msgIn[n + 1], 3, 4)
                               + ThunkByte(msgIn[n + 2], 240, -4)
               [] pos = 2 -> ThunkByte(msgIn[n + 1], 15, 2)
                               + ThunkByte(msgIn[n + 2], 192, -6)
               [] OTHER -> ThunkByte(msgIn[n + 1], 63, 0)
        nNext == IF pos = 0 THEN n ELSE n + 1
    IN IF ~(n < msgLength) THEN stop
       ELSE IF pos \in {1, 2} /\ ~(n + 1 < msgLength) THEN stop
       ELSE IF ~(d >= 0 /\ d <= 63)
       THEN [exc |-> "AssertionError", ret |-> << >>]
       ELSE Dlac2StringLoop(msgIn, nNext, m + 1,
                            Append(msgOutChars, DLAC2StrTable[d + 1]))

\* dlac2string(msgIn); [exc, ret]
Dlac2String(msgIn) == Dlac2StringLoop(msgIn, 0, 0, << >>)

-----------------------------------------------------------------------------
(* gdl90/decoder.py: the Decoder object as a record `self`                  *)

\* self.currtime += self.heartbeatInterval (one second)
AddHeartbeatInterval(t) ==
    IF t.second < 59 THEN [t EXCEPT !.second = @ + 1]
    ELSE IF t.minute < 59 THEN [t EXCEPT !.second = 0, !.minute = @ + 1]
    ELSE IF t.hour < 23
    THEN [t EXCEPT !.second = 0, !.minute = 0, !.hour = @ + 1]
    ELSE [date |-> t.date + 1, hour |-> 0, minute |-> 0, second |-> 0]

\* the part of _decodeMessage after messageToObject returned a message m
\* (lines 176-226); [self, exc, printed]: printed holds the line written to
\* standard output, if any: its kind, and for a position line of the
\* plotflight format the values it shows
Dispatch(self, m) ==
    CASE m.MsgType = "Heartbeat" ->
           LET s1 == [self EXCEPT !.currtime = AddHeartbeatInterval(@)] IN
           [self |-> IF self.format = "plotflight"
                     THEN [s1 EXCEPT !.altitudeAge = @ + 1] ELSE s1,
            exc |-> "none",
            printed |-> IF self.format = "normal"
                        THEN << [kind |-> "MSG00", f |-> << >>] >>
                        ELSE << >>]
      [] m.MsgType = "OwnershipReport" ->
           LET alt == IF self.altitudeAge < ALTITUDEMAXAGE
                      THEN self.altitude ELSE m.f.Altitude
           IN [self |-> self, exc |-> "none",
               printed |->
                 IF self.format = "normal"
                 THEN << [kind |-> "MSG10", f |-> << >>] >>
                 ELSE IF self.format = "plotflight" /\ self.gpsTimeReceived
                 THEN << [kind |-> "position",
                          f |-> << self.currtime.hour, self.currtime.minute,
                                   self.currtime.second, m.f.Latitude, m.f.Longitude,
                                   m.f.HVelocity, alt, m.f.TrackHeading >>] >>
                 ELSE << >>]
      [] m.MsgType = "OwnershipGeometricAltitude" ->
           [self |-> IF self.format = "plotflight"
                     THEN [self EXCEPT !.altitude = m.f[1], !.altitudeAge = 0]
                     ELSE self,
            exc |-> "none",
            printed |-> IF self.format = "normal"
                        THEN << [kind |-> "MSG11", f |-> << >>] >>
                        ELSE << >>]
      [] m.MsgType = "TrafficReport" ->
           [self |-> self, exc |-> "none",
            printed |-> IF self.format = "normal"
                        THEN << [kind |-> "MSG20", f |-> << >>] >>
                        ELSE << >>]
      [] m.MsgType = "GpsTime" ->
           LET line == IF self.format = "normal"
                       THEN << [kind |-> "MSG101", f |-> << >>] >> ELSE << >>
           IN
           IF ~self.gpsTimeReceived
           THEN IF self.dayStart = None
                THEN \* datetime.combine(None, utcTime) raises TypeError
                     [self |-> [self EXCEPT !.gpsTimeReceived = TRUE],
                      exc |-> "TypeError", printed |-> << >>]
                ELSE [self |-> [self EXCEPT
                                  !.gpsTimeReceived = TRUE,
                                  !.currtime = [date |-> Val(self.dayStart),
                                                hour |-> m.f[1],
                                                minute |-> m.f[2],
                                                second |-> 0]],
                      exc |-> "none", printed |-> line]
           ELSE IF self.currtime.hour < m.f[1] \/ self.currtime.minute < m.f[2]
           THEN [self |-> [self EXCEPT
                             !.currtime = [date |-> self.currtime.date,
                                           hour |-> m.f[1],
                                           minute |-> m.f[2],
                                           second |-> 0]],
                 exc |-> "none", printed |-> line]
           ELSE [self |-> self, exc |-> "none", printed |-> line]
      [] OTHER -> [self |-> self, exc |-> "none", printed |-> << >>]

\* stats['msgs'] with an entry for id (lines 151-152)
WithEntry(msgs, id) ==
    IF id \in DOMAIN msgs THEN msgs ELSE (id :> << 0, 0 >>) @@ msgs

\* DecodeMessage with the two counters of an entry swapped on a CRC failure
DecodeMessageCountsGood(self, escapedMessage) ==
    LET rawMsg == Unescape(escapedMessage) IN
    IF Len(rawMsg) < MINRAW
    THEN [self |-> self, ret |-> FALSE, exc |-> "none", outcome |-> "short",
          dispatched |-> FALSE, printed |-> << >>]
    ELSE
    LET msg == Take(rawMsg, Len(rawMsg) - 2)
        crc == Drop(rawMsg, Len(rawMsg) - 2)
        crcValid == crcCheck(msg, crc)
        msgs1 == WithEntry(self.stats.msgs, msg[1])
        self1 == [self EXCEPT !.stats.msgs =
                     [msgs1 EXCEPT ![msg[1]] = << @[1] + 1, @[2] >>]]
        m == messageToObject(msg)
    IN
    IF ~crcValid
    THEN [self |-> self1, ret |-> FALSE, exc |-> "none",
          outcome |-> "badcrc", dispatched |-> FALSE, printed |-> << >>]
    ELSE IF m.kind = "raise"
    THEN [self |-> self1, ret |-> FALSE, exc |-> m.MsgType,
          outcome |-> "raise", dispatched |-> TRUE, printed |-> << >>]
    ELSE IF m.kind = "None"
    THEN [self |-> self1, ret |-> FALSE, exc |-> "none", outcome |-> "nomsg",
          dispatched |-> TRUE, printed |-> << >>]
    ELSE LET d == Dispatch(self1, m) IN
         IF d.exc # "none"
         THEN [self |-> d.self, ret |-> FALSE, exc |-> d.exc,
               outcome |-> "raise", dispatched |-> TRUE, printed |-> << >>]
         ELSE [self |-> d.self, ret |-> TRUE, exc |-> "none",
               outcome |-> "ok", dispatched |-> TRUE, printed |-> d.printed]

\* _decodeMessage from line 173 on: self1 has counted the message as good,
\* m is what messages.messageToObject returned or raised
DecodeParsed(self1, m) ==
    IF m.kind = "raise"
    THEN [self |-> self1, ret |-> FALSE, exc |-> m.MsgType,
          outcome |-> "raise", dispatched |-> TRUE, printed |-> << >>]
    ELSE IF m.kind = "None"
    THEN [self |-> self1, ret |-> FALSE, exc |-> "none", outcome |-> "nomsg",
          dispatched |-> TRUE, printed |-> << >>]
    ELSE LET d == Dispatch(self1, m) IN
         IF d.exc # "none"
         THEN [self |-> d.self, ret |-> FALSE, exc |-> d.exc,
               outcome |-> "raise", dispatched |-> TRUE, printed |-> << >>]
         ELSE [self |-> d.self, ret |-> TRUE, exc |-> "none",
               outcome |-> "ok", dispatched |-> TRUE, printed |-> d.printed]

\* Decoder._decodeMessage; [self, ret, exc, outcome, dispatched, printed]:
\* dispatched tells whether messages.messageToObject was called
DecodeMessage(self, escapedMessage) ==
    LET rawMsg == Unescape(escapedMessage) IN
    IF Len(rawMsg) < MINRAW
    THEN [self |-> self, ret |-> FALSE, exc |-> "none", outcome |-> "short",
          dispatched |-> FALSE, printed |-> << >>]
    ELSE
    LET msg == Take(rawMsg, Len(rawMsg) - 2)
        crc == Drop(rawMsg, Len(rawMsg) - 2)
        crcValid == crcCheck(msg, crc)
        msgs1 == WithEntry(self.stats.msgs, msg[1])
    IN
    IF ~crcValid
    THEN [self |-> [self EXCEPT !.stats.msgs =
                       [msgs1 EXCEPT ![msg[1]] = << @[1], @[2] + 1 >>]],
          ret |-> FALSE, exc |-> "none", outcome |-> "badcrc",
          dispatched |-> FALSE, printed |-> << >>]
    ELSE
    DecodeParsed([self EXCEPT !.stats.msgs =
                     [msgs1 EXCEPT ![msg[1]] = << @[1] + 1, @[2] >>]],
                 messageToObject(msg))

\* ResyncLoop that keeps the end marker of the previous message
RECURSIVE ResyncLoopKeepsMarker(_, _, _)
ResyncLoopKeepsMarker(self, n, cap) ==
    LET buf == self.inputBuffer IN
    IF n > cap
    THEN [self |-> self, ret |-> FALSE, n |-> n, diverged |-> TRUE]
    ELSE IF Len(buf) < 2
    THEN [self |-> self, ret |-> FALSE, n |-> n, diverged |-> FALSE]
    ELSE IF buf[1] = FLAG
    THEN [self |-> [self EXCEPT !.parserSynchronized = TRUE],
          ret |-> TRUE, n |-> n, diverged |-> FALSE]
    ELSE LET f == IndexFrom(buf, FLAG, 0)
             i == IF f = -1 THEN Len(buf) ELSE f
         IN ResyncLoopKeepsMarker([self EXCEPT !.inputBuffer = Drop(buf, i)],
                                  n + 1, cap)

\* ResyncLoop that stops one byte short of the marker when it removes the
\* leading bytes
RECURSIVE ResyncLoopStopsShort(_, _, _)
ResyncLoopStopsShort(self, n, cap) ==
    LET buf == self.inputBuffer IN
    IF n > cap
    THEN [self |-> self, ret |-> FALSE, n |-> n, diverged |-> TRUE]
    ELSE IF Len(buf) < 2
    THEN [self |-> self, ret |-> FALSE, n |-> n, diverged |-> FALSE]
    ELSE IF buf[1] = FLAG /\ buf[2] = FLAG
    THEN [self |-> [self EXCEPT !.inputBuffer = Drop(buf, 1),
                                !.parserSynchronized = TRUE],
          ret |-> TRUE, n |-> n, diverged |-> FALSE]
    ELSE IF buf[1] = FLAG
    THEN [self |-> [self EXCEPT !.parserSynchronized = TRUE],
          ret |-> TRUE, n |-> n, diverged |-> FALSE]
    ELSE LET f == IndexFrom(buf, FLAG, 0)
             i == IF f = -1 THEN Len(buf) ELSE f
         IN ResyncLoopStopsShort(
              [self EXCEPT !.inputBuffer = Drop(buf, Max(i - 1, 0))],
              n + 1, cap)

\* The while loop of _resynchronizeParser, at its n-th pass; more than cap
\* passes are reported as diverged.  [self, ret, n, diverged]
RECURSIVE ResyncLoop(_, _, _)
ResyncLoop(self, n, cap) ==
    LET buf == self.inputBuffer IN
    IF n > cap
    THEN [self |-> self, ret |-> FALSE, n |-> n, diverged |-> TRUE]
    ELSE IF Len(buf) < 2
    THEN [self |-> self, ret |-> FALSE, n |-> n, diverged |-> FALSE]
    ELSE IF buf[1] = FLAG /\ buf[2] = FLAG
    THEN [self |-> [self EXCEPT !.inputBuffer = Drop(buf, 1),
                                !.parserSynchronized = TRUE],
          ret |-> TRUE, n |-> n, diverged |-> FALSE]
    ELSE IF buf[1] = FLAG
    THEN [self |-> [self EXCEPT !.parserSynchronized = TRUE],
          ret |-> TRUE, n |-> n, diverged |-> FALSE]
    ELSE LET f == IndexFrom(buf, FLAG, 0)
             i == IF f = -1 THEN Len(buf) ELSE f
         IN ResyncLoop([self EXCEPT !.inputBuffer = Drop(buf, i)],
                       n + 1, cap)

\* _resynchronizeParser that reports synchronization without discarding the
\* bytes before the marker
ResynchronizeParserNoDiscard(self) ==
    [self |-> [self EXCEPT !.parserSynchronized = TRUE,
                           !.stats.resync = @ + 1],
     ret |-> TRUE, n |-> 1, diverged |-> FALSE]

\* Decoder._resynchronizeParser
ResynchronizeParser(self) ==
    ResyncLoop([self EXCEPT !.parserSynchronized = FALSE,
                            !.stats.resync = @ + 1],
               1, Len(self.inputBuffer) + 2)

\* The while loop of _parseMessages, at its n-th pass.
\* acc = [log, resync]: frames handed over so far, most passes of a resync
ParseDone(self, acc, n, exc, diverged) ==
    [self |-> self, log |-> acc.log, raised |-> exc,
     iters |-> [parse |-> n, resync |-> acc.resync, diverged |-> diverged]]

\* ParseLoop that returns after the first message it decodes
ParseLoopOnce(self, acc, n, cap) ==
    IF Len(self.inputBuffer) < 2
    THEN ParseDone(self, acc, n, "none", FALSE)
    ELSE
    LET lost == self.inputBuffer[1] # FLAG
        r == ResynchronizeParser(self)
        self1 == IF lost THEN r.self ELSE self
        acc1 == IF lost THEN [acc EXCEPT !.resync = Max(@, r.n)] ELSE acc
    IN
    IF lost /\ ~r.ret
    THEN ParseDone(self1, acc1, n, "none", r.diverged)
    ELSE
    LET buf == self1.inputBuffer
        i == IndexFrom(buf, FLAG, 1)
    IN
    IF i = -1 THEN ParseDone(self1, acc1, n, "none", FALSE)
    ELSE
    LET msg == SubSeq(buf, 2, i)
        self2 == [self1 EXCEPT !.inputBuffer = Drop(buf, i + 1)]
        d == DecodeMessage(self2, msg)
        acc2 == [acc1 EXCEPT !.log = Append(@,
                    [body |-> msg, outcome |-> d.outcome, ret |-> d.ret,
                     dispatched |-> d.dispatched, printed |-> d.printed,
                     pre |-> self2, post |-> d.self])]
    IN ParseDone(d.self, acc2, n, d.exc, FALSE)

RECURSIVE ParseLoop(_, _, _, _)

\* the end of a pass, after _decodeMessage(msg) on self2 returned d (line 85)
ParseDecoded(d, msg, self2, acc1, n, cap) ==
    LET acc2 == [acc1 EXCEPT !.log = Append(@,
                    [body |-> msg, outcome |-> d.outcome, ret |-> d.ret,
                     dispatched |-> d.dispatched, printed |-> d.printed,
                     pre |-> self2, post |-> d.self])]
    IN
    IF d.exc # "none" THEN ParseDone(d.self, acc2, n, d.exc, FALSE)
    ELSE ParseLoop(d.self, acc2, n + 1, cap)

ParseLoop(self, acc, n, cap) ==
    IF n > cap THEN ParseDone(self, acc, n, "none", TRUE)
    ELSE IF Len(self.inputBuffer) < 2
    THEN ParseDone(self, acc, n, "none", FALSE)
    ELSE
    LET lost == self.inputBuffer[1] # FLAG
        r == ResynchronizeParser(self)
        self1 == IF lost THEN r.self ELSE self
        acc1 == IF lost THEN [acc EXCEPT !.resync = Max(@, r.n)] ELSE acc
    IN
    IF lost /\ ~r.ret
    THEN ParseDone(self1, acc1, n, "none", r.diverged)
    ELSE
    LET buf == self1.inputBuffer
        i == IndexFrom(buf, FLAG, 1)
    IN
    IF i = -1 THEN ParseDone(self1, acc1, n, "none", FALSE)
    ELSE
    LET msg == SubSeq(buf, 2, i)
        self2 == [self1 EXCEPT !.inputBuffer = Drop(buf, i + 1)]
    IN ParseDecoded(DecodeMessage(self2, msg), msg, self2, acc1, n, cap)

\* Decoder._parseMessages
ParseMessages(self) ==
    LET need == ~self.parserSynchronized
        r == ResynchronizeParser(self)
        self1 == IF need THEN r.self ELSE self
        acc == [log |-> << >>, resync |-> IF need THEN r.n ELSE 0]
    IN IF need /\ ~r.ret
       THEN ParseDone(self1, acc, 0, "none", r.diverged)
       ELSE ParseLoop(self1, acc, 1, Len(self1.inputBuffer) + 2)

\* addBytes that resynchronizes on every call
AddBytesAlwaysResync(self, data) ==
    ParseMessages([self EXCEPT !.inputBuffer = @ \o data,
                               !.parserSynchronized = FALSE])

\* Decoder.addBytes
AddBytes(self, data) ==
    ParseMessages([self EXCEPT !.inputBuffer = @ \o data])

-----------------------------------------------------------------------------
(* Bytes on the wire: what a GDL-90 sender built on encoder.py transmits,   *)
(* and damaged or foreign traffic                                           *)

\* the default arguments of msgOwnshipReport / msgTrafficReport
ReportDefaults ==
    [status |-> 0, addrType |-> 0, address |-> 0, latitude |-> 0,
     longitude |-> 0, altitude |-> 0, misc |-> 9, navIntegrityCat |-> 11,
     navAccuracyCat |-> 11, hVelocity |-> None, vVelocity |-> None,
     trackHeading |-> 0, emitterCat |-> 1, callSign |-> << >>, code |-> 0]

WireHeartbeat == PreparedMessage(HeartbeatBody(129, 1, 32400, 2))
WireGeoAlt == PreparedMessage(OwnshipGeometricAltitudeBody(525, Some(50), FALSE))
WireGpsTime == PreparedMessage(GpsTimeBody(0, 2, 12, 34))
WireStratux == PreparedMessage(StratuxHeartbeatBody(2, 1))

\* a GPS time 35 minutes behind the one of WireGpsTime
WireGpsTimeBehind == PreparedMessage(GpsTimeBody(1, 2, 11, 59))

\* an ownship report at 2500 ft
WireOwnship ==
    PreparedMessage(OwnshipReportBody([ReportDefaults EXCEPT !.altitude = 2500]))

\* a frame with a valid CRC whose 3-byte payload is too short for its ID
WireWrongLength(id) == PreparedMessage(<< id, 0, 0 >>)
WrongLengthFrames == { WireWrongLength(id) : id \in {0, 7, 10, 11, 20} }

\* a frame with a valid CRC and an ID that has no parser
WireUnknown == PreparedMessage(<< 42, 1, 2 >>)

\* the geometric-altitude frame with a check byte damaged in transit
WireBadCrc ==
    LET body == OwnshipGeometricAltitudeBody(525, Some(50), FALSE)
        crc == crcCompute(body)
    IN << FLAG >> \o Escape(body \o << (crc[1] + 1) % 256, crc[2] >>)
       \o << FLAG >>

\* a frame of two bytes
WireShort == << FLAG, 1, 2, FLAG >>

Frames ==
    { WireHeartbeat, WireGeoAlt, WireGpsTime, WireStratux, WireUnknown,
      WireBadCrc, WireShort, WireGpsTimeBehind, WireOwnship }
      \cup WrongLengthFrames

\* line noise, lone markers, an empty read, a frame cut in two, and a read
\* that ends inside the next frame
Pieces ==
    { << >>, << 17 >>, << FLAG >>, << 17, 34 >>, << 17, FLAG, FLAG, 17 >>,
      Take(WireGeoAlt, 4), Drop(WireGeoAlt, 4),
      WireGeoAlt \o Take(WireGeoAlt, 4) }

\* the data arguments of addBytes: one read of the socket or file
Chunks ==
    Frames \cup Pieces
    \cup { f \o WireGeoAlt : f \in Frames }
    \cup { WireShort \o f \o WireGeoAlt : f \in {WireWrongLength(0), WireBadCrc} }

-----------------------------------------------------------------------------
(* Observation of the stream fed so far: the run of well-formed frames      *)
(* (0x7E, a non-empty body free of 0x7E, 0x7E) that ends at its last byte.  *)
(* phase "closed": the last byte closed a well-formed frame whose body is   *)
(* body, the chain-th of a back-to-back run (counted up to 2).              *)

MonInit == [phase |-> "none", chain |-> 0, run |-> << >>, body |-> << >>]

MonStep(m, c) ==
    IF c # FLAG
    THEN CASE m.phase = "none" -> m
           [] m.phase = "open" -> [m EXCEPT !.run = Append(@, c)]
           [] m.phase = "closed" ->
                [phase |-> "open", chain |-> 0, run |-> << c >>, body |-> << >>]
    ELSE CASE m.phase = "none" ->
                [phase |-> "open", chain |-> 0, run |-> << >>, body |-> << >>]
           [] m.phase = "open" ->
                IF m.run # << >>
                THEN [phase |-> "closed",
                      chain |-> IF m.chain >= 1 THEN 2 ELSE 1,
                      run |-> << >>, body |-> m.run]
                ELSE [phase |-> "open", chain |-> 0, run |-> << >>,
                      body |-> << >>]
           [] m.phase = "closed" ->
                [phase |-> "open", chain |-> m.chain, run |-> << >>,
                 body |-> << >>]

RECURSIVE MonFeed(_, _)
MonFeed(m, data) ==
    \* the second test is never true; it evaluates m at every byte
    IF data = << >> \/ m.chain > 2 THEN m
    ELSE MonFeed(MonStep(m, Head(data)), Tail(data))

-----------------------------------------------------------------------------
(* The decoder as a state machine                                           *)

\* datetime.datetime.utcnow() at construction
NowSet ==
    { [date |-> 1, hour |-> 23, minute |-> 59, second |-> 59],
      [date |-> 1, hour |-> 12, minute |-> 40, second |-> 0] }

\* the Decoder object held in the variables
Self ==
    [inputBuffer |-> inputBuffer, parserSynchronized |-> parserSynchronized,
     stats |-> stats, format |-> format, altitude |-> altitude,
     altitudeAge |-> altitudeAge, gpsTimeReceived |-> gpsTimeReceived,
     dayStart |-> dayStart, currtime |-> currtime]

\* Decoder.__init__ with the clock reading now
Fresh(now) ==
    [inputBuffer |-> << >>, parserSynchronized |-> FALSE,
     stats |-> [resync |-> 0, msgs |-> (0 :> << 0, 0 >>)],
     format |-> "normal", altitude |-> 0, altitudeAge |-> 9999,
     gpsTimeReceived |-> FALSE, dayStart |-> None, currtime |-> now]

NoIters == [parse |-> 0, resync |-> 0, diverged |-> FALSE]

InitDecoder(now) ==
    /\ inputBuffer = Fresh(now).inputBuffer
    /\ parserSynchronized = Fresh(now).parserSynchronized
    /\ stats = Fresh(now).stats
    /\ format = Fresh(now).format
    /\ altitude = Fresh(now).altitude
    /\ altitudeAge = Fresh(now).altitudeAge
    /\ gpsTimeReceived = Fresh(now).gpsTimeReceived
    /\ dayStart = Fresh(now).dayStart
    /\ currtime = Fresh(now).currtime
    /\ calls = 0
    /\ lastData = << >>
    /\ log = << >>
    /\ raised = "none"
    /\ iters = NoIters
    /\ preBuffer = << >>
    /\ mon = MonInit
    /\ lastBody = None

Init ==
    /\ \E now \in NowSet : InitDecoder(now)
    /\ uIn = None
    /\ uOut = None

\* gdl90_receiver.py: the receiver sets the day and the output format right
\* after constructing the decoder
Configure(day, fmt) ==
    /\ calls = 0
    /\ dayStart = None
    /\ dayStart' = Some(day)
    /\ format' = fmt
    /\ UNCHANGED << inputBuffer, parserSynchronized, stats, altitude,
                    altitudeAge, gpsTimeReceived, currtime, calls, lastData,
                    log, raised, iters, preBuffer, mon, lastBody, uIn, uOut >>

\* the variables after a call of addBytes(data) that produced r
Store(r, data) ==
    /\ inputBuffer' = r.self.inputBuffer
    /\ parserSynchronized' = r.self.parserSynchronized
    /\ stats' = r.self.stats
    /\ format' = r.self.format
    /\ altitude' = r.self.altitude
    /\ altitudeAge' = r.self.altitudeAge
    /\ gpsTimeReceived' = r.self.gpsTimeReceived
    /\ dayStart' = r.self.dayStart
    /\ currtime' = r.self.currtime
    /\ calls' = calls + 1
    /\ lastData' = data
    /\ log' = r.log
    /\ raised' = r.raised
    /\ iters' = r.iters
    /\ preBuffer' = inputBuffer
    /\ mon' = MonFeed(mon, data)
    /\ lastBody' = IF r.log = << >> THEN lastBody
                   ELSE Some(r.log[Len(r.log)].body)

\* decoder.addBytes(data) in the receive loop of gdl90_receiver.py; an
\* exception leaving addBytes is not caught there and ends the loop
AddBytesCall(data) ==
    /\ calls < MaxCalls
    /\ raised = "none"
    /\ Store(AddBytes(Self, data), data)
    /\ UNCHANGED unitVars

Next ==
    \/ \E fmt \in {"normal", "plotflight"} : Configure(1, fmt)
    \/ \E data \in Chunks : AddBytesCall(data)

Spec == Init /\ [][Next]_vars

-----------------------------------------------------------------------------
(* A fresh decoder fed one frame of an Encoder message function             *)

ReportArgs ==
    { [status |-> st, addrType |-> 0, address |-> ad, latitude |-> la,
       longitude |-> 2 * la, altitude |-> al, misc |-> 9,
       navIntegrityCat |-> 11, navAccuracyCat |-> 11, hVelocity |-> None,
       vVelocity |-> vv, trackHeading |-> 90, emitterCat |-> 1,
       callSign |-> cs, code |-> 0] :
         st \in {0, 1}, ad \in {0, 12513025}, la \in {-90, 0, 45},
         al \in {0, 5000}, vv \in {None, Some(-640)},
         cs \in {<< >>, << 78, 49 >>} }

SXArgs ==
    { [fv |-> 17, hv |-> 1, st1 |-> 2, st2 |-> 1, satLock |-> sl,
       satConn |-> 0, num978 |-> 0, num1090 |-> 0, rate978 |-> 0,
       rate1090 |-> 0, cpuTemp |-> 0, towers |-> tw] :
         sl \in {0, 7}, tw \in {<< >>, << << 30, -98 >> >>} }

\* [fn |-> the Encoder function, body |-> the msg it hands to _preparedMessage]
EncoderCalls ==
    { [fn |-> "msgHeartbeat", body |-> HeartbeatBody(st1, st2, ts, mc)] :
         st1 \in {0, 129}, st2 \in {1, 255},
         ts \in {0, 32400, 74291, 131071}, mc \in {0, 2} }
    \cup { [fn |-> "msgOwnshipReport", body |-> OwnshipReportBody(p)] :
             p \in ReportArgs }
    \cup { [fn |-> "msgTrafficReport", body |-> TrafficReportBody(p)] :
             p \in ReportArgs }
    \cup { [fn |-> "msgOwnshipGeometricAltitude",
            body |-> OwnshipGeometricAltitudeBody(al, me, wa)] :
             al \in {-5, 0, 525}, me \in {None, Some(50)}, wa \in BOOLEAN }
    \cup { [fn |-> "msgGpsTime", body |-> GpsTimeBody(0, q, h, m)] :
             q \in {1, 2}, h \in {0, 12, 23, 25}, m \in {0, 34} }
    \cup { [fn |-> "msgStratuxHeartbeat", body |-> StratuxHeartbeatBody(st1, 1)] :
             st1 \in {0, 2} }
    \cup { [fn |-> "msgSXHeartbeat", body |-> SXHeartbeatBody(p)] : p \in SXArgs }
    \cup { [fn |-> "msgForeFlightMessage101",
            body |-> ForeFlightMessage101Body(sn, << 83, 116, 120 >>,
                                              << 103, 100, 108 >>, 1)] :
             sn \in {None, Some(<< 65, 66 >>)} }

\* frame = Encoder().msgXxx(...); Decoder().addBytes(frame)
EncodeAndFeed(c) ==
    /\ calls = 0
    /\ dayStart = None
    /\ uIn = None
    /\ uIn' = Some(c)
    /\ uOut' = Some(PreparedMessage(c.body))
    /\ Store(AddBytes(Self, PreparedMessage(c.body)), PreparedMessage(c.body))

NextEnc == \E c \in EncoderCalls : EncodeAndFeed(c)

SpecEnc == Init /\ [][NextEnc]_vars

-----------------------------------------------------------------------------
(* Functions called directly on byte sequences of bounded length            *)

UnitBytes == {FLAG, ESC, 93, 94, 17}

UnitSeqs == UNION { [1..n -> UnitBytes] : n \in 0..MaxLen }

UnitNow == [date |-> 1, hour |-> 12, minute |-> 40, second |-> 0]

\* the functions called on a byte sequence
UnitOps == {"resync", "escape", "unescape", "prepare"}

\* arguments << st1, st2, ts, mc >> of msgHeartbeat
HeartbeatArgs ==
    { << st1, st2, ts, mc >> :
        st1 \in {0, 1, 129, 255}, st2 \in {0, 1, 127, 128, 255},
        ts \in {0, 1, 255, 256, 32400, 65535, 65536, 74291, 86399, 131071},
        mc \in {0, 2} }

ReportAltitudes ==
    { -1000, -999, -988, -987, -976, -975, -13, -12, -1, 0, 12, 13, 24, 25,
      5000, 101325, 101337, 101338, 101350 }

ReportVVelocities ==
    { None } \cup { Some(v) : v \in
        { -40000, -32640, -32577, -32576, -32575, -32513, -32512, -640, -65,
          -64, -63, -1, 0, 1, 63, 64, 65, 640, 32512, 32575, 32576, 32577,
          32640, 40000 } }

ReportAddresses == { -16777216, -1, 0, 1, 11259375, 16777215, 16777216, 16777217 }

ReportLatitudes == { -91, -90, -89, -45, -1, 0, 1, 45, 89, 90, 91 }
ReportLongitudes == { -181, -180, -179, -90, -1, 0, 1, 90, 179, 180, 181 }

\* call signs as ASCII codes: "", "N", "N12345", "N1234 6", "N1234567",
\* "N12345678" and "N12345678901"
ReportCallSigns ==
    { << >>, << 78 >>, << 78, 49, 50, 51, 52, 53 >>,
      << 78, 49, 50, 51, 52, 32, 54 >>,
      << 78, 49, 50, 51, 52, 53, 54, 55 >>,
      << 78, 49, 50, 51, 52, 53, 54, 55, 56 >>,
      << 78, 49, 50, 51, 52, 53, 54, 55, 56, 57, 48, 49 >> }

\* calls of msgOwnshipReport (msgid 10) and msgTrafficReport (msgid 20),
\* each with some arguments given and the others left at their defaults
ReportCalls ==
    { [msgid |-> id, p |-> p] : id \in {10, 20}, p \in
        { [ReportDefaults EXCEPT !.status = st, !.addrType = at] :
            st \in 0..15, at \in 0..15 }
        \cup { [ReportDefaults EXCEPT !.altitude = al] : al \in ReportAltitudes }
        \cup { [ReportDefaults EXCEPT !.vVelocity = vv, !.hVelocity = hv] :
                 vv \in ReportVVelocities, hv \in {None, Some(120)} }
        \cup { [ReportDefaults EXCEPT !.address = ad, !.latitude = la] :
                 ad \in ReportAddresses, la \in {0, 91} }
        \cup { [ReportDefaults EXCEPT !.latitude = la, !.longitude = lo] :
                 la \in ReportLatitudes, lo \in ReportLongitudes }
        \cup { [ReportDefaults EXCEPT !.callSign = cs, !.code = c,
                                      !.emitterCat = ec] :
                 cs \in ReportCallSigns, c \in {0, 1, 15}, ec \in {0, 1, 39} } }

Pack24Args == { << n >> : n \in ReportAddresses \cup {255, 256, 65535, 65536} }

GeoAltitudes ==
    { -400000, -327680, -163845, -163840, -163836, -5, -4, 0, 4, 5, 525,
      163835, 163839, 163840, 327675, 327680, 400000 }

\* a report payload whose vertical velocity field holds the 12-bit pattern
RawVVelocityPayload(raw) ==
    [OwnshipReportBody(ReportDefaults) EXCEPT
       ![16] = BitOr(BitAnd(@, 240), ShiftR(raw, 8)),
       ![17] = BitAnd(raw, 255)]

\* a message-101 payload of len bytes with the given quality, hour and
\* minute bytes (bytes 3, 7 and 8), as far as len reaches
Payload101(len, quality, hour, minute) ==
    Take(<< 101, 42, 0, quality, 0, 0, 0, hour, minute >>
           \o [k \in 1..21 |-> 0], len)

\* << len, quality, hour, minute >> of the message-101 payloads parsed
Payload101Args ==
    { << len, q, h, mi >> :
        len \in {1, 9, 11, 12, 13, 20, 21, 22, 29, 30},
        q \in {48, 49, 50, 51}, h \in {0, 12, 23, 24, 255},
        mi \in {0, 34, 59, 60, 255} }

\* arguments << count, quality, hour, minute >> of msgGpsTime
GpsTimeArgs ==
    { << c, q, h, mi >> :
        c \in {0, 70000}, q \in {0, 1, 2, 3}, h \in {0, 12, 23, 24, 25},
        mi \in {0, 34, 59, 60} }

\* an I-Frame as the UAT ground station lays it out: the 9-bit length in the
\* first header byte and the top bit of the second, the type in the low
\* nibble of the second, then the data
IFrameBytes(len, type, fill) ==
    << len \div 2, ((len % 2) * 128) + type >> \o [k \in 1..len |-> fill]

\* the 424-byte data field holding the I-Frames frames (each << len, type >>)
\* followed by zero padding
UatData(frames) ==
    LET used == IF Len(frames) = 1
                THEN IFrameBytes(frames[1][1], frames[1][2], 65)
                ELSE IFrameBytes(frames[1][1], frames[1][2], 65)
                       \o IFrameBytes(frames[2][1], frames[2][2], 66)
    IN used \o [k \in 1..(UATDATALEN - Len(used)) |-> 0]

\* the I-Frames put into a data field: one frame, or two frames
UatFrameLists ==
    { << << len, t >> >> :
        len \in {0, 1, 2, 3, 4, 255, 256, 421, 422}, t \in {1, 15} }
      \cup { << << len, 1 >>, << len2, t >> >> :
               len \in {0, 1, 2, 3, 4, 255, 256}, len2 \in {1, 2, 3},
               t \in {1, 15} }

\* bytes of the DLAC-packed inputs: all-zero bits, symbols 1 and 4, and
\* bytes whose bits fall into two symbols
DlacBytes == {0, 4, 16, 66, 255}

RECURSIVE DlacSeqsOfLen(_)
DlacSeqsOfLen(n) ==
    IF n = 0 THEN { << >> }
    ELSE { Append(s, b) : s \in DlacSeqsOfLen(n - 1), b \in DlacBytes }

DlacSeqs == UNION { DlacSeqsOfLen(n) : n \in 0..MaxDlacLen }

\* a frame of three bytes that ends in a lone escape character
WireLoneEscape == << FLAG, 9, 8, ESC, FLAG >>

\* byte streams as a receiver reads them: noise before the first marker,
\* frames with and without a shared marker between them, noise between
\* frames, an unfinished frame at the end, and damaged or foreign frames
Streams ==
    { << 17, 34 >> \o WireShort \o WireGeoAlt,
      WireHeartbeat \o << FLAG >> \o Take(WireGeoAlt, 4),
      << 17, FLAG, FLAG, 17, 34, 51, 68, FLAG, FLAG >> \o WireUnknown,
      WireBadCrc \o << 17 >> \o WireGeoAlt,
      Take(WireGeoAlt, Len(WireGeoAlt) - 1) \o WireStratux,
      WireLoneEscape \o WireGeoAlt,
      WireWrongLength(11) \o WireGeoAlt \o << FLAG >>,
      WireGpsTime \o WireHeartbeat,
      << 17, 34, 51 >> }

\* the positions 0 <= c1 <= ... <= ck <= len at which a stream is split
RECURSIVE CutsFrom(_, _, _)
CutsFrom(lo, len, k) ==
    IF k = 0 THEN { << >> }
    ELSE UNION { { << c >> \o rest : rest \in CutsFrom(c, len, k - 1) } :
                 c \in lo..len }

\* the pieces of stream s between the cuts: MaxCalls reads
RECURSIVE PiecesAt(_, _, _)
PiecesAt(s, from, cuts) ==
    IF cuts = << >> THEN << Drop(s, from) >>
    ELSE << SubSeq(s, from + 1, Head(cuts)) >>
           \o PiecesAt(s, Head(cuts), Tail(cuts))

ChunkingArgs ==
    UNION { { [stream |-> s, cuts |-> c, day |-> d] :
                c \in CutsFrom(0, Len(s), MaxCalls - 1), d \in {None, Some(1)} } :
            s \in Streams }

\* the receive loop of gdl90_receiver.py over the reads in pieces: one
\* addBytes call per read, until a call raises.  [self, handed, raised,
\* msgsAfter]: handed holds, per frame given to _decodeMessage, its body and
\* parserSynchronized at that moment; msgsAfter holds stats['msgs'] after
\* each call
RECURSIVE FeedReads(_, _, _, _)

\* the rest of a pass of the loop, after addBytes returned r
AfterRead(r, rest, handed, msgsAfter) ==
    LET h == handed \o [k \in 1..Len(r.log) |->
                          [body |-> r.log[k].body,
                           sync |-> r.log[k].pre.parserSynchronized]]
        after == Append(msgsAfter, r.self.stats.msgs)
    IN IF r.raised # "none"
       THEN [self |-> r.self, handed |-> h, raised |-> r.raised,
             msgsAfter |-> after]
       ELSE FeedReads(r.self, rest, h, after)

FeedReads(self, pieces, handed, msgsAfter) ==
    IF pieces = << >>
    THEN [self |-> self, handed |-> handed, raised |-> "none",
          msgsAfter |-> msgsAfter]
    ELSE AfterRead(AddBytes(self, Head(pieces)), Tail(pieces), handed,
                   msgsAfter)

InitUnit ==
    /\ InitDecoder(UnitNow)
    /\ \/ uIn \in { Some([op |-> o, arg |-> b]) : o \in UnitOps, b \in UnitSeqs }
       \/ uIn \in { Some([op |-> "heartbeat", arg |-> a]) : a \in HeartbeatArgs }
       \/ uIn \in { Some([op |-> "report", arg |-> c]) : c \in ReportCalls }
       \/ uIn \in { Some([op |-> "pack24", arg |-> a]) : a \in Pack24Args }
       \/ uIn \in { Some([op |-> "geoalt", arg |-> << a >>]) : a \in GeoAltitudes }
       \/ uIn \in { Some([op |-> "vvraw", arg |-> << raw >>]) : raw \in 0..4095 }
       \/ uIn \in { Some([op |-> "msg101", arg |-> a]) : a \in Payload101Args }
       \/ uIn \in { Some([op |-> "gpstime", arg |-> a]) : a \in GpsTimeArgs }
       \/ uIn \in { Some([op |-> "iframes", arg |-> a]) : a \in UatFrameLists }
       \/ uIn \in { Some([op |-> "dlac", arg |-> a]) : a \in DlacSeqs }
       \/ uIn \in { Some([op |-> "chunking", arg |-> a]) : a \in ChunkingArgs }
    /\ uOut = None

\* d = Decoder(); d.inputBuffer = B; d._resynchronizeParser()
CallResynchronizeParser ==
    /\ uOut = None
    /\ Val(uIn).op = "resync"
    /\ uOut' = Some(ResynchronizeParser(
                      [Fresh(UnitNow) EXCEPT !.inputBuffer = Val(uIn).arg]))
    /\ UNCHANGED << decoderVars, uIn >>

\* Decoder()._unescape(Encoder()._escape(b))
CallEscapeUnescape ==
    /\ uOut = None
    /\ Val(uIn).op = "escape"
    /\ uOut' = Some([escaped |-> Escape(Val(uIn).arg),
                     ret |-> Unescape(Escape(Val(uIn).arg)),
                     msg |-> Val(uIn).arg])
    /\ UNCHANGED << decoderVars, uIn >>

\* b = bytearray(...); ret = Decoder()._unescape(b); msg is b after the call
CallUnescape ==
    /\ uOut = None
    /\ Val(uIn).op = "unescape"
    /\ uOut' = Some(UnescapeLoop(Val(uIn).arg, << >>, FALSE))
    /\ UNCHANGED << decoderVars, uIn >>

\* b = bytearray(...); ret = Encoder()._preparedMessage(b);
\* ret2 = Encoder()._preparedMessage(b) on the same object
CallPreparedMessage ==
    /\ uOut = None
    /\ Val(uIn).op = "prepare"
    /\ LET r1 == PreparedMessageCall(Val(uIn).arg)
           r2 == PreparedMessageCall(r1.msg)
       IN uOut' = Some([ret |-> r1.ret, msg |-> r1.msg, ret2 |-> r2.ret])
    /\ UNCHANGED << decoderVars, uIn >>

\* messages.messageToObject on the msg that Encoder.msgHeartbeat builds
CallHeartbeat ==
    /\ uOut = None
    /\ Val(uIn).op = "heartbeat"
    /\ LET a == Val(uIn).arg
           body == HeartbeatBody(a[1], a[2], a[3], a[4])
       IN uOut' = Some([exc |-> "none", body |-> body,
                        m |-> messageToObject(body)])
    /\ UNCHANGED << decoderVars, uIn >>

\* Encoder.msgOwnshipReport / msgTrafficReport, then messages.messageToObject
\* on the msg it built
CallReport ==
    /\ uOut = None
    /\ Val(uIn).op = "report"
    /\ LET r == MsgType10and20Call(Val(uIn).arg.msgid, Val(uIn).arg.p)
       IN uOut' = Some([exc |-> r.exc, body |-> r.body,
                        m |-> IF r.exc = "none" THEN messageToObject(r.body)
                              ELSE NoMessage])
    /\ UNCHANGED << decoderVars, uIn >>

\* Encoder()._pack24bit(num)
CallPack24bit ==
    /\ uOut = None
    /\ Val(uIn).op = "pack24"
    /\ uOut' = Some(Pack24bitCall(Val(uIn).arg[1]))
    /\ UNCHANGED << decoderVars, uIn >>

\* Encoder.msgOwnshipGeometricAltitude(altitude), then
\* messages.messageToObject on the msg it built
CallGeometricAltitude ==
    /\ uOut = None
    /\ Val(uIn).op = "geoalt"
    /\ LET r == OwnshipGeometricAltitudeCall(Val(uIn).arg[1], Some(50), FALSE)
       IN uOut' = Some([exc |-> r.exc, body |-> r.body,
                        m |-> IF r.exc = "none" THEN messageToObject(r.body)
                              ELSE NoMessage])
    /\ UNCHANGED << decoderVars, uIn >>

\* messages.messageToObject on a report payload with a given bit pattern in
\* its vertical velocity field
CallParseRawVVelocity ==
    /\ uOut = None
    /\ Val(uIn).op = "vvraw"
    /\ uOut' = Some([exc |-> "none",
                     body |-> RawVVelocityPayload(Val(uIn).arg[1]),
                     m |-> messageToObject(
                             RawVVelocityPayload(Val(uIn).arg[1]))])
    /\ UNCHANGED << decoderVars, uIn >>

\* messages.messageToObject on a message-101 payload
CallParseMessage101 ==
    /\ uOut = None
    /\ Val(uIn).op = "msg101"
    /\ LET a == Val(uIn).arg
           body == Payload101(a[1], a[2], a[3], a[4])
       IN uOut' = Some([exc |-> "none", body |-> body,
                        m |-> messageToObject(body)])
    /\ UNCHANGED << decoderVars, uIn >>

\* messages.messageToObject on the msg that Encoder.msgGpsTime builds
CallGpsTime ==
    /\ uOut = None
    /\ Val(uIn).op = "gpstime"
    /\ LET a == Val(uIn).arg
           body == GpsTimeBody(a[1], a[2], a[3], a[4])
       IN uOut' = Some([exc |-> "none", body |-> body,
                        m |-> messageToObject(body)])
    /\ UNCHANGED << decoderVars, uIn >>

\* messagesuat._extractIFrames on a 424-byte data field
CallExtractIFrames ==
    /\ uOut = None
    /\ Val(uIn).op = "iframes"
    /\ LET r == ExtractIFrames(UatData(Val(uIn).arg))
       IN uOut' = Some([exc |-> r.exc, ret |-> r.ret])
    /\ UNCHANGED << decoderVars, uIn >>

\* messagesuat.dlac2string on a packed byte sequence
CallDlac2String ==
    /\ uOut = None
    /\ Val(uIn).op = "dlac"
    /\ LET r == Dlac2String(Val(uIn).arg)
       IN uOut' = Some([exc |-> r.exc, ret |-> r.ret])
    /\ UNCHANGED << decoderVars, uIn >>

\* d = Decoder(); d.addBytes(stream), and a second fresh Decoder fed the
\* same stream in pieces
CallChunking ==
    /\ uOut = None
    /\ Val(uIn).op = "chunking"
    /\ LET a == Val(uIn).arg
           d == [Fresh(UnitNow) EXCEPT !.dayStart = a.day]
       IN uOut' = Some([exc |-> "none",
                        one |-> FeedReads(d, << a.stream >>, << >>, << >>),
                        split |-> FeedReads(d, PiecesAt(a.stream, 0, a.cuts),
                                            << >>, << >>)])
    /\ UNCHANGED << decoderVars, uIn >>

NextUnit ==
    \/ CallResynchronizeParser
    \/ CallEscapeUnescape
    \/ CallUnescape
    \/ CallPreparedMessage
    \/ CallHeartbeat
    \/ CallReport
    \/ CallPack24bit
    \/ CallGeometricAltitude
    \/ CallParseRawVVelocity
    \/ CallParseMessage101
    \/ CallGpsTime
    \/ CallExtractIFrames
    \/ CallDlac2String
    \/ CallChunking

SpecUnit == InitUnit /\ [][NextUnit]_vars

-----------------------------------------------------------------------------
(* Properties                                                               *)

\* the buffer holds no complete frame
NoCompleteFrame(buf) ==
    Len(buf) < 2 \/ (buf[1] = FLAG /\ IndexFrom(buf, FLAG, 1) = -1)

\* payload length messages.py requires for a message ID (0 = no requirement)
RequiredLength(id) ==
    CASE id = 0 -> 7 [] id = 7 -> 436 [] id \in {10, 20} -> 28
      [] id = 11 -> 5 [] OTHER -> 0

\* the unescaped content of a log entry, its payload and its check bytes
Raw(e) == Unescape(e.body)
Payload(e) == Take(Raw(e), Len(Raw(e)) - 2)
CheckBytes(e) == Drop(Raw(e), Len(Raw(e)) - 2)
CrcOk(e) == Len(Raw(e)) >= MINRAW /\ crcCheck(Payload(e), CheckBytes(e))
CrcFails(e) == Len(Raw(e)) >= MINRAW /\ ~crcCheck(Payload(e), CheckBytes(e))

\* a frame with a valid CRC and the wrong payload length for its ID
WrongLength(e) ==
    /\ CrcOk(e)
    /\ RequiredLength(Payload(e)[1]) # 0
    /\ Len(Payload(e)) # RequiredLength(Payload(e)[1])

Good(msgs, id) == IF id \in DOMAIN msgs THEN msgs[id][1] ELSE 0
Bad(msgs, id) == IF id \in DOMAIN msgs THEN msgs[id][2] ELSE 0

\* the clock and altitude tracking fields of a decoder record
Tracking(d) ==
    << d.currtime, d.gpsTimeReceived, d.dayStart, d.altitude, d.altitudeAge >>

\* C1: addBytes never raises; a frame with a valid CRC and the wrong payload
\* length for its ID is rejected (not decoded) and the call goes on until the
\* buffer holds no complete frame.
C1_NeverRaises ==
    /\ raised = "none"
    /\ \A k \in 1..Len(log) :
         WrongLength(log[k]) =>
           /\ ~log[k].ret
           /\ NoCompleteFrame(inputBuffer)

\* C2: whenever the bytes fed so far end with two consecutive well-formed
\* frames (or a longer back-to-back run of them), the body of the last one is
\* the body most recently handed to _decodeMessage.
C2_Recovery ==
    (mon.phase = "closed" /\ mon.chain >= 2) => lastBody = Some(mon.body)

C4_Terminates ==
    calls > 0 =>
      /\ ~iters.diverged
      /\ iters.resync <= 2
      /\ iters.parse <= Len(preBuffer) + Len(lastData) + 1
      /\ parserSynchronized \/ Len(inputBuffer) < 2

C4_Witness ==
    /\ calls > 0
    /\ iters.resync = 2
    /\ iters.parse >= 3
    /\ Len(log) >= 2
    /\ parserSynchronized

\* C5: after an addBytes call that returned, the buffer holds no complete
\* frame: fewer than 2 bytes, or a leading 0x7E and no other 0x7E.
C5_BufferDrained ==
    (calls > 0 /\ raised = "none") => NoCompleteFrame(inputBuffer)

C5_Witness ==
    /\ calls > 0
    /\ raised = "none"
    /\ Len(log) >= 1
    /\ Len(inputBuffer) >= 2

\* C6: a frame of an Encoder message function fed to a fresh Decoder is
\* extracted as exactly one frame whose unescaped content is the message body
\* followed by its CRC; it passes the CRC check and is counted as good under
\* its message ID, and the buffer is left empty.
C6_EncoderRoundTrip ==
    (calls = 1 /\ uIn # None) =>
      /\ Len(log) = 1
      /\ Raw(log[1]) = AddCrc(Val(uIn).body)
      /\ log[1].outcome \notin {"short", "badcrc"}
      /\ Good(stats.msgs, Val(uIn).body[1])
           = Good(Fresh(currtime).stats.msgs, Val(uIn).body[1]) + 1
      /\ inputBuffer = << >>

\* C7: processing an extracted frame that is not decoded into a message (too
\* short, CRC mismatch, or no message for its ID) changes Decoder.stats.
C7_FailureRecorded ==
    \A k \in 1..Len(log) :
      log[k].outcome \in {"short", "badcrc", "nomsg"} =>
        log[k].post.stats # log[k].pre.stats

\* C8: a frame shorter than 5 bytes after unescaping makes _decodeMessage
\* return False without raising and without dispatching a message or changing
\* the decoder, and the frames that follow it in the buffer are extracted by
\* the same addBytes call (none is left in the buffer).
C8_ShortFrameSkipped ==
    \A k \in 1..Len(log) :
      Len(Raw(log[k])) < MINRAW =>
        /\ ~log[k].ret
        /\ ~log[k].dispatched
        /\ log[k].outcome # "raise"
        /\ log[k].post = log[k].pre
        /\ NoCompleteFrame(inputBuffer)

\* C9: a frame of at least 5 unescaped bytes that fails the CRC check adds
\* exactly 1 to the bad counter of its leading byte, leaves every other
\* counter and the clock/altitude tracking fields unchanged, is not
\* dispatched to messages.py, and does not end the extraction: if it is the
\* last frame the call handled, the call returned with no complete frame left.
C9_CrcFailure ==
    \A k \in 1..Len(log) :
      CrcFails(log[k]) =>
        LET e == log[k]
            id == Raw(e)[1]
            pre == e.pre.stats.msgs
            post == e.post.stats.msgs
        IN /\ Bad(post, id) = Bad(pre, id) + 1
           /\ \A j \in DOMAIN pre \cup DOMAIN post :
                /\ Good(post, j) = Good(pre, j)
                /\ j # id => Bad(post, j) = Bad(pre, j)
           /\ e.post.stats.resync = e.pre.stats.resync
           /\ Tracking(e.post) = Tracking(e.pre)
           /\ ~e.dispatched
           /\ ~e.ret
           /\ k = Len(log) => (raised = "none" /\ NoCompleteFrame(inputBuffer))

C9_Witness ==
    /\ Len(log) >= 2
    /\ CrcFails(log[1])
    /\ log[2].outcome = "ok"

\* C10: Decoder._unescape(Encoder._escape(b)) = b for every byte sequence b.
C10_EscapeRoundTrip ==
    (uOut # None /\ Val(uIn).op = "escape") => Val(uOut).ret = Val(uIn).arg

C10_Witness ==
    /\ uOut # None
    /\ Val(uIn).op = "escape"
    /\ Len(Val(uIn).arg) >= 3
    /\ Val(uIn).arg[Len(Val(uIn).arg)] = ESC
    /\ Val(uIn).arg[1] = ESC
    /\ Val(uIn).arg[2] = FLAG
    /\ Val(uOut).escaped # Val(uIn).arg

\* a 0x7D at the end of msg that has no byte after it to escape
RECURSIVE EndsInLoneEscape(_)
EndsInLoneEscape(msg) ==
    IF msg = << >> THEN FALSE
    ELSE IF Head(msg) # ESC THEN EndsInLoneEscape(Tail(msg))
    ELSE IF Len(msg) = 1 THEN TRUE
    ELSE EndsInLoneEscape(Drop(msg, 2))

\* C11: when 0x7D is the final byte of the input of _unescape with nothing
\* after it, the result is the unescaped form of the bytes before it followed
\* by one 0x7D, and is never longer than the input.
C11_LoneEscapeKept ==
    (uOut # None /\ Val(uIn).op = "unescape" /\ EndsInLoneEscape(Val(uIn).arg))
      => LET b == Val(uIn).arg IN
         /\ Val(uOut).ret = Unescape(Take(b, Len(b) - 1)) \o << ESC >>
         /\ Len(Val(uOut).ret) <= Len(b)

\* C12: _preparedMessage returns 0x7E, the escaped form of the body followed
\* by its two CRC bytes, and 0x7E; 0x7E occurs only at the first and the last
\* position of the result and every 0x7D is followed by 0x5D or 0x5E.
C12_PreparedFrame ==
    (uOut # None /\ Val(uIn).op = "prepare") =>
      LET b == Val(uIn).arg
          f == Val(uOut).ret
          inner == SubSeq(f, 2, Len(f) - 1)
      IN /\ Len(f) >= 4
         /\ f[1] = FLAG
         /\ f[Len(f)] = FLAG
         /\ inner = Escape(b \o crcCompute(b))
         /\ Unescape(inner) = b \o crcCompute(b)
         /\ \A k \in 1..Len(f) : f[k] = FLAG => k \in {1, Len(f)}
         /\ \A k \in 1..Len(f) :
              f[k] = ESC => (k < Len(f) /\ f[k + 1] \in {93, 94})

C12_Witness ==
    /\ uOut # None
    /\ Val(uIn).op = "prepare"
    /\ Len(Val(uIn).arg) >= 3
    /\ Contains(Val(uIn).arg, FLAG)
    /\ Contains(Val(uIn).arg, ESC)
    /\ Len(Val(uOut).ret) >= Len(Val(uIn).arg) + 6

\* C13: escape, unescape and _preparedMessage leave the byte sequence passed
\* to them unchanged, and two calls of _preparedMessage on the same body
\* object return the same frame.
C13_CodecPure ==
    (uOut # None /\ Val(uIn).op \in {"escape", "unescape", "prepare"}) =>
      /\ Val(uOut).msg = Val(uIn).arg
      /\ Val(uIn).op = "prepare" => Val(uOut).ret2 = Val(uOut).ret

\* C14: parsing the payload of msgHeartbeat(st1, st2, ts, mc), ts in
\* 0..2^17-1 and st1, st2 in 0..255, yields TimeStamp = ts, StatusByte1 = st1
\* and StatusByte2 = (st2 AND 0x7F) OR (bit 16 of ts moved to bit 7); payload
\* bytes 3-4 hold the low 16 bits of ts, low byte first.
C14_HeartbeatRoundTrip ==
    (uOut # None /\ Val(uIn).op = "heartbeat") =>
      LET st1 == Val(uIn).arg[1]
          st2 == Val(uIn).arg[2]
          ts == Val(uIn).arg[3]
          body == Val(uOut).body
          m == Val(uOut).m
      IN /\ m.kind = "msg"
         /\ m.MsgType = "Heartbeat"
         /\ m.f[1] = st1
         /\ m.f[2] = (st2 % 128) + (128 * (ts \div 65536))
         /\ m.f[3] = ts
         /\ body[4] = ts % 256
         /\ body[5] = (ts \div 256) % 256

C14_Witness ==
    /\ uOut # None
    /\ Val(uIn).op = "heartbeat"
    /\ Val(uIn).arg[3] = 74291
    /\ Val(uIn).arg[2] = 255
    /\ Val(uOut).m.f[3] = 74291

\* a report call that returned, and what was observed of it
ReportReturned ==
    uOut # None /\ Val(uIn).op = "report" /\ Val(uOut).exc = "none"

Abs(x) == IF x < 0 THEN -x ELSE x
Clamp(x, lo, hi) == IF x < lo THEN lo ELSE IF x > hi THEN hi ELSE x

\* C15: the 12-bit altitude field of an ownship/traffic report is
\* clamp(round((altitude + 1000) / 25), 0, 0xFFE), so for every altitude in
\* -1000..101350 ft the decoded Altitude is within 12.5 ft of the encoded one.
C15_AltitudeRoundTrip ==
    (ReportReturned /\ Val(uIn).arg.p.altitude \in -1000..101350) =>
      LET alt == Val(uIn).arg.p.altitude
          body == Val(uOut).body
          field == (body[12] * 16) + (body[13] \div 16)
      IN /\ field = Clamp(((2 * (alt + 1000)) + 25) \div 50, 0, 4094)
         /\ 2 * Abs(Val(uOut).m.f.Altitude - alt) <= 25

\* C16: for status and addrType in 0..15, parsing the payload of
\* msgOwnshipReport/msgTrafficReport yields Status = status (upper 4 bits of
\* payload byte 1) and Type = addrType (lower 4 bits).
C16_StatusAndType ==
    ReportReturned =>
      LET p == Val(uIn).arg.p
          body == Val(uOut).body
      IN /\ body[2] = (p.status * 16) + p.addrType
         /\ Val(uOut).m.f.Status = p.status
         /\ Val(uOut).m.f.Type = p.addrType

\* raw * 180/2^23 degrees differs from deg degrees by at most 180/2^23
WithinOneLSB(raw, deg) ==
    /\ (raw - 1) * 180 <= deg * 8388608
    /\ deg * 8388608 <= (raw + 1) * 180

\* C17: _makeLatitude/_makeLongitude clamp to [-90,90] / [-180,180] and
\* return a value in 0..0xFFFFFF, so _pack24bit does not raise for any
\* latitude or longitude, and the 24-bit value decoded as two's complement
\* times 180/2^23 is within one LSB of the clamped input, the bounds -180 and
\* +180 included.
C17_LatLongRoundTrip ==
    (uOut # None /\ Val(uIn).op = "report"
       /\ Val(uIn).arg.p.address \in 0..16777215) =>
      LET p == Val(uIn).arg.p
          m == Val(uOut).m
      IN /\ MakeLatitude(p.latitude) \in 0..16777215
         /\ MakeLongitude(p.longitude) \in 0..16777215
         /\ Val(uOut).exc = "none"
         /\ WithinOneLSB(m.f.Latitude, Clamp(p.latitude, -90, 90))
         /\ WithinOneLSB(m.f.Longitude, Clamp(p.longitude, -180, 180))

\* C18: through the 12-bit vertical velocity field, |v| <= 32576 fpm decodes
\* to 64 * trunc(v / 64), v > 32576 to 32640, v < -32576 to -32640 and None
\* to 0; every raw 12-bit pattern decodes to a value in -32640..32640, and
\* the reserved patterns 0x1FF-0x7FF and 0x801-0xE01 decode to 0.
C18_VerticalVelocity ==
    /\ ReportReturned =>
         LET vv == Val(uIn).arg.p.vVelocity
             v == Val(vv)
             d == Val(uOut).m.f.VVelocity
         IN IF vv = None THEN d = 0
            ELSE IF v > 32576 THEN d = 32640
            ELSE IF v < -32576 THEN d = -32640
            ELSE d = 64 * TruncDiv(v, 64)
    /\ (uOut # None /\ Val(uIn).op = "vvraw") =>
         LET raw == Val(uIn).arg[1]
             d == Val(uOut).m.f.VVelocity
         IN /\ Val(uOut).m.kind = "msg"
            /\ d \in -32640..32640
            /\ (raw \in 511..2047 \/ raw \in 2049..3585) => d = 0

C18_Witness ==
    /\ ReportReturned
    /\ Val(uIn).arg.p.vVelocity = Some(-32513)
    /\ Val(uOut).m.f.VVelocity = -32512
    /\ Val(uOut).m.f.HVelocity = 120

\* C19: _pack24bit returns the three bytes of num, most significant first,
\* for num in 0..0xFFFFFF and raises ValueError with no output for every
\* other num; msgOwnshipReport/msgTrafficReport raise ValueError exactly
\* when address is outside 0..0xFFFFFF.
C19_Pack24bit ==
    /\ (uOut # None /\ Val(uIn).op = "pack24") =>
         LET num == Val(uIn).arg[1] IN
         IF num \in 0..16777215
         THEN /\ Val(uOut).exc = "none"
              /\ Val(uOut).ret = << num \div 65536, (num \div 256) % 256,
                                    num % 256 >>
         ELSE /\ Val(uOut).exc = "ValueError"
              /\ Val(uOut).ret = << >>
    /\ (uOut # None /\ Val(uIn).op = "report") =>
         /\ Val(uOut).exc \in {"none", "ValueError"}
         /\ Val(uOut).exc = "ValueError"
              <=> Val(uIn).arg.p.address \notin 0..16777215
         /\ Val(uOut).exc = "ValueError" => Val(uOut).body = << >>

C19_Witness ==
    /\ uOut # None
    /\ Val(uIn).op = "report"
    /\ Val(uIn).arg.p.address = 16777216
    /\ Val(uIn).arg.p.latitude = 91
    /\ Val(uOut).exc = "ValueError"

\* C20: msgOwnshipGeometricAltitude returns a frame without raising for
\* every integer altitude, and an altitude outside -163840..163835 ft is
\* clamped to that range, so the decoded Altitude never has the opposite
\* sign of the input.
C20_GeometricAltitudeClamped ==
    (uOut # None /\ Val(uIn).op = "geoalt") =>
      LET alt == Val(uIn).arg[1]
          d == Val(uOut).m.f[1]
      IN /\ Val(uOut).exc = "none"
         /\ Val(uOut).m.kind = "msg"
         /\ d = 5 * TruncDiv(Clamp(alt, -163840, 163835), 5)
         /\ ~(alt > 0 /\ d < 0)
         /\ ~(alt < 0 /\ d > 0)

\* C21: a message-101 payload decodes to a GpsTime record exactly when its
\* length is 12 or 21 and byte 7 (hour) is in 0..23 and byte 8 (minute) in
\* 0..59; otherwise the result is None, without an exception.  Waas is False
\* for quality byte '1', True for '2', None otherwise, and decoding
\* msgGpsTime(count, quality, hour, minute) with valid hour and minute
\* returns the same hour and minute.
C21_GpsTimeDecode ==
    /\ (uOut # None /\ Val(uIn).op = "msg101") =>
         LET len == Val(uIn).arg[1]
             q == Val(uIn).arg[2]
             h == Val(uIn).arg[3]
             mi == Val(uIn).arg[4]
             r == Val(uOut).m
         IN IF len \in {12, 21} /\ h \in 0..23 /\ mi \in 0..59
            THEN /\ r.kind = "msg"
                 /\ r.MsgType = "GpsTime"
                 /\ r.f[1] = h
                 /\ r.f[2] = mi
                 /\ r.f[3] = (CASE q = 49 -> "False" [] q = 50 -> "True"
                                [] OTHER -> "None")
            ELSE r = NoMessage
    /\ (uOut # None /\ Val(uIn).op = "gpstime"
          /\ Val(uIn).arg[3] \in 0..23 /\ Val(uIn).arg[4] \in 0..59) =>
         /\ Val(uOut).m.kind = "msg"
         /\ Val(uOut).m.f[1] = Val(uIn).arg[3]
         /\ Val(uOut).m.f[2] = Val(uIn).arg[4]
         /\ Len(Val(uOut).body) = 12

C21_Witness ==
    /\ uOut # None
    /\ Val(uIn).op = "msg101"
    /\ Val(uIn).arg = << 21, 50, 23, 59 >>
    /\ Val(uOut).m.f = << 23, 59, "True" >>

\* C22: in I-Frame extraction the length of each frame is the 9-bit value
\* (first header byte << 1) OR (top bit of the second header byte), so every
\* length, odd ones included, is decoded; the frame's data is the next
\* `length` bytes and the scan resumes right after them: the frames laid out
\* in the data field are the frames returned.
C22_IFrameLength ==
    (uOut # None /\ Val(uIn).op = "iframes") =>
        LET frames == Val(uIn).arg
            ret == Val(uOut).ret
        IN /\ Val(uOut).exc = "none"
           /\ Len(ret) = Len(frames)
           /\ \A k \in 1..Len(frames) :
                /\ ret[k].Type = frames[k][2]
                /\ ret[k].Data = [j \in 1..frames[k][1] |-> 64 + k]

\* C23: dlac2string stops at the end of its input or at the first
\* end-of-text symbol (6-bit value 0): the call returns, and no character
\* located after an end-of-text symbol is appended to the output.
C23_StopsAtEndOfText ==
    (uOut # None /\ Val(uIn).op = "dlac") =>
        /\ Val(uOut).exc = "none"
        /\ \A i \in 1..Len(Val(uOut).ret) :
             Val(uOut).ret[i] = CHAR_ETX => i = Len(Val(uOut).ret)

\* the buffer starts with 0x7E and holds no other 0x7E
OpenFrameOnly(buf) ==
    /\ Len(buf) >= 1
    /\ buf[1] = FLAG
    /\ ~Contains(Drop(buf, 1), FLAG)

\* C24: in the Synchronized state, when the buffer starts with 0x7E and holds
\* no other 0x7E, an addBytes call whose data contains no 0x7E only appends
\* the data: no byte is removed from the buffer, no statistics counter
\* (resync included) changes, and the decoder stays Synchronized.
C24_AppendOnly ==
    [][ (/\ parserSynchronized
         /\ OpenFrameOnly(inputBuffer)
         /\ calls' = calls + 1
         /\ ~Contains(lastData', FLAG))
        => (/\ inputBuffer' = inputBuffer \o lastData'
            /\ stats' = stats
            /\ parserSynchronized'
            /\ raised' = "none"
            /\ log' = << >>) ]_vars

\* a call that appended data free of 0x7E to an open frame, made in the
\* Synchronized state (no resynchronization ran in the call)
C24_Witness ==
    /\ calls >= 2
    /\ OpenFrameOnly(preBuffer)
    /\ lastData # << >>
    /\ ~Contains(lastData, FLAG)
    /\ iters.resync = 0
    /\ parserSynchronized
    /\ inputBuffer = preBuffer \o lastData

\* body stands in stream s right after the 0x7E at position p (1-based) and
\* right before another 0x7E
BetweenMarkers(s, p, body) ==
    /\ p >= 1
    /\ p + Len(body) + 1 <= Len(s)
    /\ s[p] = FLAG
    /\ s[p + Len(body) + 1] = FLAG
    /\ SubSeq(s, p + 1, p + Len(body)) = body

\* every frame handed over in run r of stream s is a run of s free of 0x7E,
\* directly between two 0x7E bytes, and was extracted while
\* parserSynchronized was True
BodiesFromStream(s, r) ==
    \A k \in 1..Len(r.handed) :
        /\ ~Contains(r.handed[k].body, FLAG)
        /\ \E p \in 1..Len(s) : BetweenMarkers(s, p, r.handed[k].body)
        /\ r.handed[k].sync

\* C25: every frame body handed to _decodeMessage by addBytes is a contiguous
\* run of input bytes that contains no 0x7E and that stood in the input
\* stream directly between two 0x7E bytes (so no byte before the first 0x7E
\* of the stream is part of a body), and frames are only extracted while
\* parserSynchronized is True.
C25_BodiesBetweenMarkers ==
    (uOut # None /\ Val(uIn).op = "chunking") =>
        /\ BodiesFromStream(Val(uIn).arg.stream, Val(uOut).one)
        /\ BodiesFromStream(Val(uIn).arg.stream, Val(uOut).split)

\* a stream with noise before its first 0x7E, split inside a frame, from
\* which two frames were handed over
C25_Witness ==
    /\ uOut # None
    /\ Val(uIn).op = "chunking"
    /\ Val(uIn).arg.stream[1] # FLAG
    /\ Val(uIn).arg.cuts[1] = 4
    /\ Len(Val(uOut).split.handed) = 2
    /\ Val(uOut).split.handed[2].body # << >>

\* C26: chunking independence: the sequence of frame bodies handed to
\* _decodeMessage, the final buffer content and the per-ID good/bad counters
\* are the same whether the stream is fed to a fresh Decoder in one addBytes
\* call or split into several addBytes calls.
C26_ChunkingIndependence ==
    (uOut # None /\ Val(uIn).op = "chunking") =>
        LET one == Val(uOut).one
            split == Val(uOut).split
        IN /\ [k \in 1..Len(one.handed) |-> one.handed[k].body]
                = [k \in 1..Len(split.handed) |-> split.handed[k].body]
           /\ one.self.inputBuffer = split.self.inputBuffer
           /\ one.self.stats.msgs = split.self.stats.msgs

\* the unescaped form of a frame body: a lone 0x7D at its end is kept
IdealUnescape(b) ==
    IF EndsInLoneEscape(b) THEN Unescape(Take(b, Len(b) - 1)) \o << ESC >>
    ELSE Unescape(b)

\* number of the frames handed over whose unescaped form has at least 5
\* bytes, the first of them id
RECURSIVE CountFrames(_, _)
CountFrames(handed, id) ==
    IF handed = << >> THEN 0
    ELSE LET raw == IdealUnescape(Head(handed).body)
         IN (IF Len(raw) >= MINRAW /\ raw[1] = id THEN 1 ELSE 0)
              + CountFrames(Tail(handed), id)

\* C27: after any sequence of addBytes calls, for every message ID the sum
\* good[id] + bad[id] equals the number of extracted frames of at least 5
\* unescaped bytes whose first payload byte is id; no good or bad counter
\* ever decreases, and an entry for an ID other than 0 exists only if such a
\* frame was seen.
C27_StatisticsAccounting ==
    (uOut # None /\ Val(uIn).op = "chunking") =>
        LET r == Val(uOut).split
            msgs == r.self.stats.msgs
        IN /\ \A id \in DOMAIN msgs :
                /\ msgs[id][1] + msgs[id][2] = CountFrames(r.handed, id)
                /\ id # 0 => CountFrames(r.handed, id) > 0
           /\ \A id \in 0..255 :
                id \notin DOMAIN msgs => CountFrames(r.handed, id) = 0
           /\ \A k \in 1..(Len(r.msgsAfter) - 1) :
                \A id \in DOMAIN r.msgsAfter[k] :
                   /\ id \in DOMAIN r.msgsAfter[k + 1]
                   /\ r.msgsAfter[k + 1][id][1] >= r.msgsAfter[k][id][1]
                   /\ r.msgsAfter[k + 1][id][2] >= r.msgsAfter[k][id][2]

\* C28: for every ASCII call sign of any length (empty, shorter or longer
\* than 8) and in-range values of the other fields, the msg built by
\* msgOwnshipReport/msgTrafficReport is exactly 28 bytes before the CRC, with
\* bytes 19-26 holding the call sign right-padded with spaces or truncated to
\* 8 bytes, and the report parser accepts it.
C28_CallSignField ==
    (uOut # None /\ Val(uIn).op = "report"
       /\ Val(uIn).arg.p.address \in 0..16777215
       /\ Val(uIn).arg.p.latitude \in -90..90
       /\ Val(uIn).arg.p.longitude \in -180..180)
    => LET cs == Val(uIn).arg.p.callSign
           body == Val(uOut).body
       IN /\ Val(uOut).exc = "none"
          /\ Len(body) = 28
          /\ \A k \in 1..8 :
               body[19 + k] = (IF k <= Len(cs) THEN cs[k] ELSE 32)
          /\ Val(uOut).m.kind = "msg"
          /\ Val(uOut).m.MsgType
               = (IF Val(uIn).arg.msgid = 10 THEN "OwnshipReport"
                  ELSE "TrafficReport")

C28_Witness ==
    /\ ReportReturned
    /\ Len(Val(uIn).arg.p.callSign) = 12
    /\ Val(uIn).arg.p.code = 15
    /\ Len(Val(uOut).body) = 28
    /\ Val(uOut).body[27] = 55
    /\ Val(uOut).body[28] = 240

\* seconds since midnight of a clock value
TimeOfDay(t) == (t.hour * 3600) + (t.minute * 60) + t.second

\* a log entry of a decoded message with the given ID
Decoded(e, id) == e.outcome = "ok" /\ Payload(e)[1] = id

\* C29: once the first GpsTime message has been received, processing a later
\* GpsTime message never sets currtime to an earlier time of day than
\* currtime held before the message.
C29_ClockOnlyForward ==
    \A k \in 1..Len(log) :
        (Decoded(log[k], 101) /\ log[k].pre.gpsTimeReceived)
          => TimeOfDay(log[k].post.currtime) >= TimeOfDay(log[k].pre.currtime)

=============================================================================
